---- MODULE Spec2Model ----
(***************************************************************************)
(* Hiddo signup flow: the four /api/auth routes of the route module over   *)
(* the in-memory store (MemStorage), and the store's rate limiter; then    *)
(* the post, like, story and explorer routes and the story cleanup timer.  *)
(*                                                                         *)
(* Strings that the code normalises (emails, usernames) are sequences of   *)
(* one-character strings, so that toLowerCase and trim are computed.       *)
(* Time is the wall clock in milliseconds; it advances by jumps.           *)
(* randomUUID() is a fresh number taken from a counter.                    *)
(***************************************************************************)
EXTENDS Integers, Sequences, FiniteSets, TLC

VARIABLES
  users,                 \* MemStorage.users, in Map insertion order
  pendingUsers,          \* MemStorage.pendingUsers: email -> PendingUser
  verificationTokens,    \* MemStorage.verificationTokens: token -> VerificationToken
  verificationSessions,  \* MemStorage.verificationSessions: sessionToken -> VerificationSession
  emailSignupAttempts,   \* MemStorage.emailSignupAttempts: email -> {count, lastAttempt}
  verifyAttempts,        \* MemStorage.verifyAttempts: email -> {count, lastAttempt, locked, lockUntil}
  now,                   \* Date.now(), milliseconds
  uuid,                  \* number of randomUUID() values handed out
  ticks,                 \* number of clock jumps taken
  procs,                 \* in-flight requests: each handler's position and locals
  last,                  \* the request that finished last and its response
  succeeded,             \* session tokens a complete-account call answered 200 for
  consumed,              \* verification tokens a verify-email call answered 200 for
  passed,                \* <<operation, email>> pairs: the calls answered 200 so far
  failRun,               \* email -> [n, at]: run of failed verification attempts for the email
  limit,                 \* the rate limiter's answer to the check made last
  signupLimit,           \* the checkEmailSignupRateLimit call made last: what it saw and answered
  signupRun,             \* email -> [n, at, spaced]: signup attempts checked, then recorded if allowed
  sinceSuccess,          \* email -> [n, before]: failures recorded since, and in the run before,
                         \* the last recordVerificationAttempt(email, true)
  posts,                 \* MemStorage.posts: id -> Post
  likes,                 \* MemStorage.likes: id -> Like
  explorers,             \* MemStorage.explorers: id -> Explorer
  notifications,         \* MemStorage.notifications: id -> Notification
  stories,               \* MemStorage.stories: id -> Story
  calls,                 \* in-flight requests of the post, like and follow routes
  reply                  \* the request of those routes that finished last and its response

vars == <<users, pendingUsers, verificationTokens, verificationSessions,
          emailSignupAttempts, verifyAttempts, now, uuid, ticks, procs, last,
          succeeded, consumed, passed, failRun, limit, signupLimit, signupRun,
          sinceSuccess, posts, likes, explorers, notifications, stories, calls,
          reply>>

(* The state of the content routes, and the state of the signup routes *)
social == <<posts, likes, explorers, notifications, stories, calls, reply>>

signup == <<users, pendingUsers, verificationTokens, verificationSessions,
            emailSignupAttempts, verifyAttempts, procs, last, succeeded, consumed,
            passed, failRun, limit, signupLimit, signupRun, sinceSuccess>>

-----------------------------------------------------------------------------
(* Bounds of the model *)

MaxUuid == 6
MaxTicks == 2
MaxRlTicks == 3
MaxFailures == 6
MaxSignupTicks == 3
MaxRecorded == 7
MaxFlowTicks == 5
MaxAttempts == 7
MaxIds == 4
MaxStoryTicks == 3

(* Inputs *)

EmailA == <<"a">>
EmailB == <<"b">>
RawEmails == {EmailA, <<"A">>, EmailB, <<>>}
Emails == {EmailA, EmailB}
RawUsernames == {<<"j">>, <<"J">>, <<"k">>, <<" ">>}
FirstNames == {"Jo"}
LastNames == {"Do"}
Uuids == 1..MaxUuid
Procs == {1, 2}

-----------------------------------------------------------------------------
(* String.prototype.toLowerCase and String.prototype.trim *)

LowerChar(c) ==
  CASE c = "A" -> "a"
    [] c = "B" -> "b"
    [] c = "J" -> "j"
    [] c = "K" -> "k"
    [] OTHER -> c

toLowerCase(str) == [i \in 1..Len(str) |-> LowerChar(str[i])]

RECURSIVE trimStart(_)
trimStart(str) ==
  IF str # <<>> /\ Head(str) = " " THEN trimStart(Tail(str)) ELSE str

RECURSIVE trimEnd(_)
trimEnd(str) ==
  IF str # <<>> /\ str[Len(str)] = " "
    THEN trimEnd(SubSeq(str, 1, Len(str) - 1))
    ELSE str

trim(str) == trimEnd(trimStart(str))

(* Math.ceil(a / b) for a >= 0, b > 0 *)
Ceil(a, b) == (a + b - 1) \div b

-----------------------------------------------------------------------------
(* Request validation: the zod schemas of the signup routes *)

insertPendingUserSchema(body) ==
  /\ body.email # <<>>
  /\ \A i \in 1..Len(body.email) : body.email[i] # " "

verifyEmailSchema(body) ==
  /\ insertPendingUserSchema(body)
  /\ body.token \in Uuids

completeProfileSchema(body) ==
  /\ body.firstName # ""
  /\ body.lastName # ""
  /\ body.verificationSession \in Uuids

completeAccountSchema(body) ==
  /\ body.username # <<>>
  /\ \A i \in 1..Len(body.username) : body.username[i] # " "
  /\ body.verificationSession \in Uuids

-----------------------------------------------------------------------------
(* Durations *)

TokenTtl == 24 * 60 * 60 * 1000
SessionTtl == 30 * 60 * 1000
LockTime == 15 * 60 * 1000
VerifyWindow == 1000 * 60 * 15
MaxVerifyFailures == 5
SignupWindow == 60 * 60 * 1000
MaxSignupAttempts == 5
CooldownSeconds == 60

-----------------------------------------------------------------------------
(* The store as one value: st.users, st.pendingUsers, ... *)

Store == [users |-> users,
          pendingUsers |-> pendingUsers,
          verificationTokens |-> verificationTokens,
          verificationSessions |-> verificationSessions,
          now |-> now,
          uuid |-> uuid]

EmptyMap == [x \in {} |-> x]

MapDelete(m, k) == [x \in DOMAIN m \ {k} |-> m[x]]

MapSet(m, k, v) == [x \in DOMAIN m \cup {k} |-> IF x = k THEN v ELSE m[x]]

(* Array.prototype.find over users.values(): the first match, as a set of
   at most one element ({} is undefined) *)
Find(seq, P(_)) ==
  LET hits == {i \in 1..Len(seq) : P(seq[i])}
  IN IF hits = {} THEN {}
     ELSE {seq[CHOOSE i \in hits : \A j \in hits : i <= j]}

getUserByEmailWrongField(st, email) ==
  LET P(u) == u.username = email IN Find(st.users, P)

getUserByEmail(st, email) ==
  LET P(u) == u.email = email IN Find(st.users, P)

getUserByUsername(st, username) ==
  LET P(u) == u.username = username IN Find(st.users, P)

(* upsertUser: an existing user with externalId = userData.id is updated in
   place, otherwise the user is appended. Returns [st, ret]. *)
upsertUser(st, userData) ==
  LET hits == {i \in 1..Len(st.users) : st.users[i].externalId = userData.id}
  IN IF hits # {}
       THEN LET i == CHOOSE i \in hits : \A j \in hits : i <= j
                updated == [st.users[i] EXCEPT
                              !.email = userData.email,
                              !.firstName = userData.firstName,
                              !.lastName = userData.lastName,
                              !.username = userData.username,
                              !.isVerified = userData.isVerified]
            IN [st |-> [st EXCEPT !.users[i] = updated], ret |-> {updated}]
       ELSE LET user == [id |-> userData.id,
                         externalId |-> userData.id,
                         email |-> userData.email,
                         firstName |-> userData.firstName,
                         lastName |-> userData.lastName,
                         username |-> userData.username,
                         isVerified |-> userData.isVerified]
            IN [st |-> [st EXCEPT !.users = Append(st.users, user)], ret |-> {user}]

createVerificationToken(st, tokenData) ==
  [st EXCEPT !.verificationTokens =
     MapSet(@, tokenData.token,
            [email |-> tokenData.email, token |-> tokenData.token,
             type |-> tokenData.type, expiresAt |-> tokenData.expiresAt])]

getVerificationTokenNoExpiry(st, token) ==
  IF token \notin DOMAIN st.verificationTokens
    THEN [st |-> st, ret |-> {}]
    ELSE [st |-> st, ret |-> {st.verificationTokens[token]}]

(* An expired token is deleted by the lookup and reported as undefined *)
getVerificationToken(st, token) ==
  IF token \notin DOMAIN st.verificationTokens
    THEN [st |-> st, ret |-> {}]
    ELSE IF st.verificationTokens[token].expiresAt < st.now
      THEN [st |-> [st EXCEPT !.verificationTokens = MapDelete(@, token)],
            ret |-> {}]
      ELSE [st |-> st, ret |-> {st.verificationTokens[token]}]

deleteVerificationTokenKept(st, token) == st

deleteVerificationToken(st, token) ==
  [st EXCEPT !.verificationTokens = MapDelete(@, token)]

deleteVerificationTokensByEmail(st, email) ==
  [st EXCEPT !.verificationTokens =
     [t \in {x \in DOMAIN @ : @[x].email # email} |-> @[t]]]

getPendingUserByEmail(st, email) ==
  IF email \in DOMAIN st.pendingUsers THEN {st.pendingUsers[email]} ELSE {}

deletePendingUser(st, email) ==
  [st EXCEPT !.pendingUsers = MapDelete(@, email)]

(* createPendingUser up to its await: throws when a PendingUser exists *)
createPendingUserExists(st, userData) ==
  userData.email \in DOMAIN st.pendingUsers

(* createPendingUser after its await: the PendingUser is stored *)
createPendingUserSetSkipped(st, userData) == st

createPendingUserSet(st, userData) ==
  [st EXCEPT !.pendingUsers =
     MapSet(@, userData.email,
            [email |-> userData.email, isVerified |-> FALSE,
             firstName |-> "", lastName |-> ""])]

updatePendingUserProfile(st, email, profileData) ==
  IF email \notin DOMAIN st.pendingUsers
    THEN [st |-> st, ret |-> FALSE]
    ELSE [st |-> [st EXCEPT !.pendingUsers[email].firstName = profileData.firstName,
                            !.pendingUsers[email].lastName = profileData.lastName],
          ret |-> TRUE]

updatePendingUserVerificationSkipped(st, email, isVerified) == st

updatePendingUserVerification(st, email, isVerified) ==
  IF email \notin DOMAIN st.pendingUsers
    THEN st
    ELSE [st EXCEPT !.pendingUsers[email].isVerified = isVerified]

createVerificationSession(st, sessionData) ==
  [st EXCEPT !.verificationSessions =
     MapSet(@, sessionData.sessionToken,
            [email |-> sessionData.email,
             sessionToken |-> sessionData.sessionToken,
             expiresAt |-> sessionData.expiresAt,
             used |-> sessionData.used])]

getVerificationSessionStrict(st, sessionToken) ==
  IF sessionToken \notin DOMAIN st.verificationSessions
    THEN [st |-> st, ret |-> {}]
    ELSE LET session == st.verificationSessions[sessionToken]
         IN IF session.expiresAt <= st.now
              THEN [st |-> [st EXCEPT !.verificationSessions = MapDelete(@, sessionToken)],
                    ret |-> {}]
              ELSE IF session.used
                THEN [st |-> st, ret |-> {}]
                ELSE [st |-> st, ret |-> {session}]

(* An expired session is deleted by the lookup; a used one is kept; both are
   reported as undefined *)
getVerificationSession(st, sessionToken) ==
  IF sessionToken \notin DOMAIN st.verificationSessions
    THEN [st |-> st, ret |-> {}]
    ELSE LET session == st.verificationSessions[sessionToken]
         IN IF session.expiresAt < st.now
              THEN [st |-> [st EXCEPT !.verificationSessions = MapDelete(@, sessionToken)],
                    ret |-> {}]
              ELSE IF session.used
                THEN [st |-> st, ret |-> {}]
                ELSE [st |-> st, ret |-> {session}]

markVerificationSessionUsedSkipped(st, sessionToken) == st

markVerificationSessionUsed(st, sessionToken) ==
  IF sessionToken \notin DOMAIN st.verificationSessions
    THEN st
    ELSE [st EXCEPT !.verificationSessions[sessionToken].used = TRUE]

(* randomUUID(): the next unused number *)
randomUUID(st) == st.uuid + 1

TakeUuid(st) == [st EXCEPT !.uuid = @ + 1]

-----------------------------------------------------------------------------
(* Rate limiting of verification attempts.  An absent retryAfter or
   lockUntil is the empty sequence. *)

checkVerificationRateLimit(attemptsMap, email, t) ==
  IF email \notin DOMAIN attemptsMap
    THEN [map |-> attemptsMap,
          ret |-> [allowed |-> TRUE, locked |-> FALSE, retryAfter |-> <<>>]]
    ELSE LET attempts == attemptsMap[email]
         IN IF attempts.locked /\ attempts.lockUntil # <<>> /\ t < attempts.lockUntil[1]
              THEN [map |-> attemptsMap,
                    ret |-> [allowed |-> FALSE, locked |-> TRUE,
                             retryAfter |-> <<Ceil(attempts.lockUntil[1] - t, 1000)>>]]
              ELSE IF attempts.locked /\ attempts.lockUntil # <<>> /\ t >= attempts.lockUntil[1]
                THEN [map |-> MapSet(attemptsMap, email,
                                [count |-> 0, lastAttempt |-> t, locked |-> FALSE,
                                 lockUntil |-> <<>>]),
                      ret |-> [allowed |-> TRUE, locked |-> FALSE, retryAfter |-> <<>>]]
                ELSE IF t - attempts.lastAttempt >= VerifyWindow
                  THEN [map |-> MapSet(attemptsMap, email,
                                  [count |-> 0, lastAttempt |-> t, locked |-> FALSE,
                                   lockUntil |-> <<>>]),
                        ret |-> [allowed |-> TRUE, locked |-> FALSE, retryAfter |-> <<>>]]
                  ELSE [map |-> attemptsMap,
                        ret |-> [allowed |-> TRUE, locked |-> FALSE, retryAfter |-> <<>>]]

recordVerificationAttemptKeepsLock(attemptsMap, email, success, t) ==
  IF success
    THEN IF email \in DOMAIN attemptsMap
           THEN [attemptsMap EXCEPT ![email].count = 0]
           ELSE attemptsMap
    ELSE IF email \notin DOMAIN attemptsMap
      THEN MapSet(attemptsMap, email,
                  [count |-> 1, lastAttempt |-> t, locked |-> FALSE, lockUntil |-> <<>>])
      ELSE LET newCount == attemptsMap[email].count + 1
           IN IF newCount >= MaxVerifyFailures
                THEN MapSet(attemptsMap, email,
                            [count |-> newCount, lastAttempt |-> t, locked |-> TRUE,
                             lockUntil |-> <<t + LockTime>>])
                ELSE MapSet(attemptsMap, email,
                            [count |-> newCount, lastAttempt |-> t, locked |-> FALSE,
                             lockUntil |-> <<>>])

recordVerificationAttemptLate(attemptsMap, email, success, t) ==
  IF success
    THEN MapDelete(attemptsMap, email)
    ELSE IF email \notin DOMAIN attemptsMap
      THEN MapSet(attemptsMap, email,
                  [count |-> 1, lastAttempt |-> t, locked |-> FALSE, lockUntil |-> <<>>])
      ELSE LET newCount == attemptsMap[email].count + 1
           IN IF newCount > MaxVerifyFailures
                THEN MapSet(attemptsMap, email,
                            [count |-> newCount, lastAttempt |-> t, locked |-> TRUE,
                             lockUntil |-> <<t + LockTime>>])
                ELSE MapSet(attemptsMap, email,
                            [count |-> newCount, lastAttempt |-> t, locked |-> FALSE,
                             lockUntil |-> <<>>])

recordVerificationAttempt(attemptsMap, email, success, t) ==
  IF success
    THEN MapDelete(attemptsMap, email)
    ELSE IF email \notin DOMAIN attemptsMap
      THEN MapSet(attemptsMap, email,
                  [count |-> 1, lastAttempt |-> t, locked |-> FALSE, lockUntil |-> <<>>])
      ELSE LET newCount == attemptsMap[email].count + 1
           IN IF newCount >= MaxVerifyFailures
                THEN MapSet(attemptsMap, email,
                            [count |-> newCount, lastAttempt |-> t, locked |-> TRUE,
                             lockUntil |-> <<t + LockTime>>])
                ELSE MapSet(attemptsMap, email,
                            [count |-> newCount, lastAttempt |-> t, locked |-> FALSE,
                             lockUntil |-> <<>>])

-----------------------------------------------------------------------------
(* Rate limiting of signup attempts.  The code divides the age of the last
   attempt, in milliseconds, by 1000 * 60 * 60 and by 1000 and compares the
   quotients with 1 and with 60; the comparisons are made on milliseconds
   here, which is the same for integer millisecond timestamps. *)

checkEmailSignupRateLimitSixth(attemptsMap, email, t) ==
  IF email \notin DOMAIN attemptsMap
    THEN [map |-> attemptsMap, ret |-> [allowed |-> TRUE, retryAfter |-> <<>>]]
    ELSE LET attempts == attemptsMap[email]
         IN IF t - attempts.lastAttempt >= SignupWindow
              THEN [map |-> MapDelete(attemptsMap, email),
                    ret |-> [allowed |-> TRUE, retryAfter |-> <<>>]]
              ELSE IF attempts.count > MaxSignupAttempts
                THEN [map |-> attemptsMap,
                      ret |-> [allowed |-> FALSE,
                               retryAfter |->
                                 <<Ceil(attempts.lastAttempt + SignupWindow - t, 1000)>>]]
                ELSE IF t - attempts.lastAttempt < CooldownSeconds * 1000
                  THEN [map |-> attemptsMap,
                        ret |-> [allowed |-> FALSE,
                                 retryAfter |->
                                   <<Ceil(CooldownSeconds * 1000
                                          - (t - attempts.lastAttempt), 1000)>>]]
                  ELSE [map |-> attemptsMap,
                        ret |-> [allowed |-> TRUE, retryAfter |-> <<>>]]

checkEmailSignupRateLimitNoCooldown(attemptsMap, email, t) ==
  IF email \notin DOMAIN attemptsMap
    THEN [map |-> attemptsMap, ret |-> [allowed |-> TRUE, retryAfter |-> <<>>]]
    ELSE LET attempts == attemptsMap[email]
         IN IF t - attempts.lastAttempt >= SignupWindow
              THEN [map |-> MapDelete(attemptsMap, email),
                    ret |-> [allowed |-> TRUE, retryAfter |-> <<>>]]
              ELSE IF attempts.count >= MaxSignupAttempts
                THEN [map |-> attemptsMap,
                      ret |-> [allowed |-> FALSE,
                               retryAfter |->
                                 <<Ceil(attempts.lastAttempt + SignupWindow - t, 1000)>>]]
                ELSE IF t - attempts.lastAttempt < CooldownSeconds
                  THEN [map |-> attemptsMap,
                        ret |-> [allowed |-> FALSE,
                                 retryAfter |->
                                   <<Ceil(CooldownSeconds * 1000
                                          - (t - attempts.lastAttempt), 1000)>>]]
                  ELSE [map |-> attemptsMap,
                        ret |-> [allowed |-> TRUE, retryAfter |-> <<>>]]

checkEmailSignupRateLimit(attemptsMap, email, t) ==
  IF email \notin DOMAIN attemptsMap
    THEN [map |-> attemptsMap, ret |-> [allowed |-> TRUE, retryAfter |-> <<>>]]
    ELSE LET attempts == attemptsMap[email]
         IN IF t - attempts.lastAttempt >= SignupWindow
              THEN [map |-> MapDelete(attemptsMap, email),
                    ret |-> [allowed |-> TRUE, retryAfter |-> <<>>]]
              ELSE IF attempts.count >= MaxSignupAttempts
                THEN [map |-> attemptsMap,
                      ret |-> [allowed |-> FALSE,
                               retryAfter |->
                                 <<Ceil(attempts.lastAttempt + SignupWindow - t, 1000)>>]]
                ELSE IF t - attempts.lastAttempt < CooldownSeconds * 1000
                  THEN [map |-> attemptsMap,
                        ret |-> [allowed |-> FALSE,
                                 retryAfter |->
                                   <<Ceil(CooldownSeconds * 1000
                                          - (t - attempts.lastAttempt), 1000)>>]]
                  ELSE [map |-> attemptsMap,
                        ret |-> [allowed |-> TRUE, retryAfter |-> <<>>]]

recordEmailSignupAttemptNoReset(attemptsMap, email, t) ==
  IF email \notin DOMAIN attemptsMap
    THEN MapSet(attemptsMap, email, [count |-> 1, lastAttempt |-> t])
    ELSE MapSet(attemptsMap, email,
                [count |-> attemptsMap[email].count + 1, lastAttempt |-> t])

recordEmailSignupAttempt(attemptsMap, email, t) ==
  IF email \notin DOMAIN attemptsMap
    THEN MapSet(attemptsMap, email, [count |-> 1, lastAttempt |-> t])
    ELSE IF t - attemptsMap[email].lastAttempt >= SignupWindow
      THEN MapSet(attemptsMap, email, [count |-> 1, lastAttempt |-> t])
      ELSE MapSet(attemptsMap, email,
                  [count |-> attemptsMap[email].count + 1, lastAttempt |-> t])

-----------------------------------------------------------------------------
(* A request in flight: the route handler's position (pc), the request body,
   the handler's local constants, and the response once it is sent.  A
   handler runs from one await to the next without interruption; the store
   method it awaits runs its synchronous part before the handler yields. *)

NoBody == [email |-> <<>>, token |-> 0, firstName |-> "", lastName |-> "",
           username |-> <<>>, verificationSession |-> 0]

NoResp == [status |-> 0, message |-> "", errors |-> FALSE,
           verificationSession |-> 0, email |-> <<>>, username |-> <<>>]

Idle == [op |-> "idle", pc |-> "done", body |-> NoBody, mailOk |-> TRUE,
         known |-> FALSE, email |-> <<>>, username |-> <<>>, r |-> {}, pendingUser |-> {},
         session |-> {}, success |-> FALSE, resp |-> NoResp]

Request(op, body, mailOk) ==
  [Idle EXCEPT !.op = op, !.pc = "start", !.body = body, !.mailOk = mailOk]

Yield(st, l, pc) == [st |-> st, l |-> [l EXCEPT !.pc = pc]]

Json(st, l, status, message) ==
  [st |-> st,
   l |-> [l EXCEPT !.pc = "done",
                   !.resp = [NoResp EXCEPT !.status = status, !.message = message]]]

GenericSignupMessage ==
  "If your email is valid, you'll receive a verification link shortly. Please check your inbox."

(* POST /api/auth/signup-email *)
SignupExistingUserRevealed(st, l) ==
  Json(st, l, 409, "User with this email already exists")

SignupExistingUser(st, l) == Json(st, l, 200, GenericSignupMessage)

SignupEmailStep(st, l) ==
  CASE l.pc = "start" ->
         IF ~insertPendingUserSchema(l.body)
           THEN Json(st, l, 200, GenericSignupMessage)          \* catch
           ELSE LET email == trim(toLowerCase(l.body.email))
                IN Yield(st, [l EXCEPT !.email = email,
                                       !.r = getUserByEmail(st, email)], "existingUser")
    [] l.pc = "existingUser" ->
         IF l.r # {}
           THEN SignupExistingUser(st, l)
           ELSE Yield(deleteVerificationTokensByEmail(st, l.email), l, "createPendingUser")
    [] l.pc = "createPendingUser" ->
         IF createPendingUserExists(st, [email |-> l.email])
           THEN Json(st, l, 200, GenericSignupMessage)          \* throws; catch
           ELSE Yield(st, [l EXCEPT !.r = getUserByEmail(st, l.email)], "verifiedUser")
    [] l.pc = "verifiedUser" ->
         IF l.r # {}
           THEN Json(st, l, 200, GenericSignupMessage)          \* throws; catch
           ELSE Yield(createPendingUserSet(st, [email |-> l.email]), l, "token")
    [] l.pc = "token" ->
         LET token == randomUUID(st)
             expiresAt == st.now + TokenTtl
         IN Yield(createVerificationToken(TakeUuid(st),
                    [email |-> l.email, token |-> token,
                     type |-> "email_verification", expiresAt |-> expiresAt]),
                  l, "sendVerificationEmail")
    [] l.pc = "sendVerificationEmail" ->
         Yield(st, [l EXCEPT !.success = l.mailOk], "respond")
    [] l.pc = "respond" ->
         Json(st, l, 200, GenericSignupMessage)

(* The email verify-email acts for: the one the token was issued for *)
TokenEmailFromBody(l, verificationToken) == l.body.email

TokenEmail(l, verificationToken) == verificationToken.email

(* POST /api/auth/verify-email *)
VerifyEmailStep(st, l) ==
  CASE l.pc = "start" ->
         IF ~verifyEmailSchema(l.body)
           THEN Json(st, l, 400, "Invalid verification token")  \* catch
           ELSE LET g == getVerificationToken(st, l.body.token)
                IN Yield(g.st, [l EXCEPT !.r = g.ret], "verificationToken")
    [] l.pc = "verificationToken" ->
         IF l.r = {}
           THEN Json(st, l, 400, "Invalid or expired verification token")
           ELSE LET verificationToken == CHOOSE t \in l.r : TRUE
                IN IF verificationToken.type # "email_verification"
                     THEN Json(st, l, 400, "Invalid token type")
                     ELSE IF verificationToken.expiresAt < st.now
                       THEN Yield(deleteVerificationToken(st, l.body.token), l, "expired")
                       ELSE Yield(st, [l EXCEPT
                                    !.email = TokenEmail(l, verificationToken),
                                    !.pendingUser = getPendingUserByEmail(st,
                                                      TokenEmail(l, verificationToken))],
                                  "pendingUser")
    [] l.pc = "expired" ->
         Json(st, l, 400, "Verification token has expired")
    [] l.pc = "pendingUser" ->
         IF l.pendingUser = {}
           THEN Json(st, l, 400, "Pending user not found")
           ELSE Yield(updatePendingUserVerification(st, l.email, TRUE), l, "session")
    [] l.pc = "session" ->
         LET sessionToken == randomUUID(st)
             sessionExpiresAt == st.now + SessionTtl
         IN Yield(createVerificationSession(TakeUuid(st),
                    [email |-> l.email, sessionToken |-> sessionToken,
                     expiresAt |-> sessionExpiresAt, used |-> FALSE]),
                  [l EXCEPT !.resp.verificationSession = sessionToken], "deleteToken")
    [] l.pc = "deleteToken" ->
         Yield(deleteVerificationToken(st, l.body.token), l, "respond")
    [] l.pc = "respond" ->
         [st |-> st,
          l |-> [l EXCEPT !.pc = "done",
                          !.resp = [NoResp EXCEPT
                             !.status = 200,
                             !.message = "Email verified successfully",
                             !.verificationSession = l.resp.verificationSession]]]

(* The email complete-profile and complete-account act for: the session's *)
SessionEmailFromBody(l, verificationSession) ==
  IF l.body.email # <<>> THEN l.body.email ELSE verificationSession.email

SessionEmail(l, verificationSession) == verificationSession.email

(* complete-profile's replay guard: firstName and lastName are stored *)
ProfileCompletedNever(pendingUser) == FALSE

ProfileCompleted(pendingUser) ==
  pendingUser.firstName # "" /\ pendingUser.lastName # ""

(* complete-account's guard: firstName or lastName is missing *)
ProfileMissingNever(pendingUser) == FALSE

ProfileMissing(pendingUser) ==
  pendingUser.firstName = "" \/ pendingUser.lastName = ""

(* The catch of complete-profile and complete-account for a ZodError *)
InvalidDataNoErrors(st, l) == Json(st, l, 400, "Invalid data provided")

InvalidData(st, l) ==
  [st |-> st,
   l |-> [l EXCEPT !.pc = "done",
                   !.resp = [NoResp EXCEPT !.status = 400,
                                           !.message = "Invalid data provided",
                                           !.errors = TRUE]]]

(* POST /api/auth/complete-profile *)
CompleteProfileStep(st, l) ==
  CASE l.pc = "start" ->
         IF ~completeProfileSchema(l.body)
           THEN InvalidData(st, l)                              \* catch, ZodError
           ELSE LET g == getVerificationSession(st, l.body.verificationSession)
                IN Yield(g.st, [l EXCEPT !.session = g.ret], "verificationSession")
    [] l.pc = "verificationSession" ->
         IF l.session = {}
           THEN Json(st, l, 400, "Invalid or expired verification session")
           ELSE LET verificationSession == CHOOSE x \in l.session : TRUE
                IN Yield(st, [l EXCEPT
                           !.email = SessionEmail(l, verificationSession),
                           !.pendingUser = getPendingUserByEmail(st,
                                             SessionEmail(l, verificationSession))],
                         "pendingUser")
    [] l.pc = "pendingUser" ->
         IF l.pendingUser = {}
           THEN Json(st, l, 400, "Invalid session")
           ELSE LET pendingUser == CHOOSE x \in l.pendingUser : TRUE
                IN IF ~pendingUser.isVerified
                     THEN Json(st, l, 400, "Invalid session")
                     ELSE IF ProfileCompleted(pendingUser)
                       THEN Json(st, l, 400, "Invalid session")
                       ELSE LET u == updatePendingUserProfile(st, l.email,
                                       [firstName |-> l.body.firstName,
                                        lastName |-> l.body.lastName])
                            IN Yield(u.st, [l EXCEPT !.success = u.ret], "success")
    [] l.pc = "success" ->
         IF ~l.success
           THEN Json(st, l, 500, "Failed to complete profile")
           ELSE Json(st, l, 200, "Profile completed successfully")

(* POST /api/auth/complete-account *)
InvalidSessionUsed(st, l) == Json(st, l, 400, "Session already used")

InvalidSession(st, l) == Json(st, l, 400, "Invalid session")

CompleteAccountStep(st, l) ==
  CASE l.pc = "start" ->
         IF ~completeAccountSchema(l.body)
           THEN InvalidData(st, l)                              \* catch, ZodError
           ELSE LET g == getVerificationSession(st, l.body.verificationSession)
                IN Yield(g.st, [l EXCEPT !.username = trim(toLowerCase(l.body.username)),
                                         !.session = g.ret], "verificationSession")
    [] l.pc = "verificationSession" ->
         IF l.session = {}
           THEN InvalidSession(st, l)
           ELSE LET verificationSession == CHOOSE x \in l.session : TRUE
                IN Yield(st, [l EXCEPT
                           !.email = SessionEmail(l, verificationSession),
                           !.pendingUser = getPendingUserByEmail(st,
                                             SessionEmail(l, verificationSession))],
                         "pendingUser")
    [] l.pc = "pendingUser" ->
         IF l.pendingUser = {}
           THEN InvalidSession(st, l)
           ELSE LET pendingUser == CHOOSE x \in l.pendingUser : TRUE
                IN IF ~pendingUser.isVerified
                     THEN InvalidSession(st, l)
                     ELSE IF ProfileMissing(pendingUser)
                       THEN InvalidSession(st, l)
                       ELSE Yield(st, [l EXCEPT !.r = getUserByEmail(st, l.email)],
                                  "existingUserByEmail")
    [] l.pc = "existingUserByEmail" ->
         IF l.r # {}
           THEN InvalidSession(st, l)
           ELSE Yield(st, [l EXCEPT !.r = getUserByUsername(st, l.username)],
                      "existingUserByUsername")
    [] l.pc = "existingUserByUsername" ->
         IF l.r # {}
           THEN Json(st, l, 400, "Username is already taken")
           ELSE LET pendingUser == CHOOSE x \in l.pendingUser : TRUE
                    userData == [id |-> randomUUID(st),
                                 email |-> pendingUser.email,
                                 firstName |-> pendingUser.firstName,
                                 lastName |-> pendingUser.lastName,
                                 username |-> l.username,
                                 isVerified |-> TRUE]
                    u == upsertUser(TakeUuid(st), userData)
                IN Yield(u.st, [l EXCEPT !.r = u.ret], "markUsed")
    [] l.pc = "markUsed" ->
         Yield(markVerificationSessionUsed(st, l.body.verificationSession), l, "deletePendingUser")
    [] l.pc = "deletePendingUser" ->
         Yield(deletePendingUser(st, l.email), l, "respond")
    [] l.pc = "respond" ->
         LET user == CHOOSE x \in l.r : TRUE
         IN [st |-> st,
             l |-> [l EXCEPT !.pc = "done",
                             !.resp = [NoResp EXCEPT
                                !.status = 200,
                                !.message = "Account created successfully",
                                !.email = user.email,
                                !.username = user.username]]]

(* One uninterrupted piece of a handler: from an await to the next *)
HandlerStep(st, l) ==
  CASE l.op = "signup-email" -> SignupEmailStep(st, l)
    [] l.op = "verify-email" -> VerifyEmailStep(st, l)
    [] l.op = "complete-profile" -> CompleteProfileStep(st, l)
    [] l.op = "complete-account" -> CompleteAccountStep(st, l)

(* A handler run from the request to the response with no other request's
   step in between *)
RECURSIVE Handle(_, _)
Handle(st, l) ==
  IF l.pc = "done" THEN [st |-> st, l |-> l]
  ELSE LET n == HandlerStep(st, l) IN Handle(n.st, n.l)

-----------------------------------------------------------------------------
(* The content store as one value: db.posts, db.likes, ...  The ids of posts,
   likes, connections, notifications and stories come from randomUUID; user
   ids are the authenticated claims.sub of a request. *)

Db == [posts |-> posts, likes |-> likes, explorers |-> explorers,
       notifications |-> notifications, stories |-> stories,
       now |-> now, uuid |-> uuid]

StoryTtl == 24 * 60 * 60 * 1000

Max(a, b) == IF a >= b THEN a ELSE b

(* Array.prototype.find over the values of a Map whose keys were handed out in
   increasing order: the match inserted first, as a set of at most one id *)
First(ids) ==
  IF ids = {} THEN {} ELSE {CHOOSE i \in ids : \A j \in ids : i <= j}

(* Array.prototype.sort by createdAt, newest first; the sort is stable, so
   equal dates stay in insertion order *)
RECURSIVE NewestFirst(_, _)
NewestFirst(m, ids) ==
  IF ids = {} THEN <<>>
  ELSE LET top == CHOOSE i \in ids :
                    \A j \in ids : \/ m[i].createdAt > m[j].createdAt
                                   \/ m[i].createdAt = m[j].createdAt /\ i <= j
       IN <<m[top]>> \o NewestFirst(m, ids \ {top})

createPost(db, postData) ==
  LET post == [id |-> randomUUID(db), userId |-> postData.userId,
               title |-> postData.title, likeCount |-> 0, commentCount |-> 0,
               createdAt |-> db.now]
  IN [db |-> [TakeUuid(db) EXCEPT !.posts = MapSet(@, post.id, post)],
      ret |-> {post}]

getPost(db, id) == IF id \in DOMAIN db.posts THEN {db.posts[id]} ELSE {}

deletePost(db, id) ==
  [db |-> [db EXCEPT !.posts = MapDelete(@, id)], ret |-> id \in DOMAIN db.posts]

createStory(db, storyData) ==
  LET story == [id |-> randomUUID(db), userId |-> storyData.userId,
                mediaUrl |-> storyData.mediaUrl, expiresAt |-> storyData.expiresAt,
                viewCount |-> 0, createdAt |-> db.now]
  IN [db |-> [TakeUuid(db) EXCEPT !.stories = MapSet(@, story.id, story)],
      ret |-> {story}]

getActiveStories(db) ==
  NewestFirst(db.stories, {id \in DOMAIN db.stories : db.stories[id].expiresAt >= db.now})

deleteExpiredStoriesInclusive(db) ==
  [db EXCEPT !.stories =
     [id \in {i \in DOMAIN @ : ~(@[i].expiresAt <= db.now)} |-> @[id]]]

deleteExpiredStories(db) ==
  [db EXCEPT !.stories =
     [id \in {i \in DOMAIN @ : ~(@[i].expiresAt < db.now)} |-> @[id]]]

(* deleteExpiredStories stopped by an error after the first n entries of
   stories.entries() *)
deleteExpiredStoriesThrows(db, n) ==
  LET seen == {i \in DOMAIN db.stories :
                 Cardinality({j \in DOMAIN db.stories : j <= i}) <= n}
  IN [db EXCEPT !.stories =
        [id \in {i \in DOMAIN @ : ~(i \in seen /\ @[i].expiresAt < db.now)} |-> @[id]]]

createLikeNoCount(db, likeData) ==
  LET like == [id |-> randomUUID(db), userId |-> likeData.userId,
               postId |-> likeData.postId]
  IN [db |-> [TakeUuid(db) EXCEPT !.likes = MapSet(@, like.id, like)],
      ret |-> {like}]

createLike(db, likeData) ==
  LET like == [id |-> randomUUID(db), userId |-> likeData.userId,
               postId |-> likeData.postId]
      stored == [TakeUuid(db) EXCEPT !.likes = MapSet(@, like.id, like)]
  IN [db |-> IF likeData.postId \in DOMAIN stored.posts
               THEN [stored EXCEPT !.posts[likeData.postId].likeCount = @ + 1]
               ELSE stored,
      ret |-> {like}]

getUserLike(db, userId, postId) ==
  {db.likes[i] : i \in First({j \in DOMAIN db.likes :
                                /\ db.likes[j].userId = userId
                                /\ db.likes[j].postId = postId})}

removeLike(db, userId, postId) ==
  LET like == getUserLike(db, userId, postId)
  IN IF like = {}
       THEN [db |-> db, ret |-> FALSE]
       ELSE LET removed == [db EXCEPT !.likes =
                              MapDelete(@, (CHOOSE l \in like : TRUE).id)]
            IN [db |-> IF postId \in DOMAIN removed.posts
                         THEN [removed EXCEPT !.posts[postId].likeCount =
                                 Max(0, @ - 1)]
                         ELSE removed,
                ret |-> TRUE]

createExplorerConnection(db, explorerData) ==
  LET explorer == [id |-> randomUUID(db), followerId |-> explorerData.followerId,
                   followingId |-> explorerData.followingId,
                   status |-> explorerData.status]
  IN [db |-> [TakeUuid(db) EXCEPT !.explorers = MapSet(@, explorer.id, explorer)],
      ret |-> {explorer}]

getExplorerConnection(db, followerId, followingId) ==
  {db.explorers[i] : i \in First({j \in DOMAIN db.explorers :
                                    /\ db.explorers[j].followerId = followerId
                                    /\ db.explorers[j].followingId = followingId})}

updateExplorerStatus(db, id, status) ==
  IF id \notin DOMAIN db.explorers
    THEN [db |-> db, ret |-> {}]
    ELSE LET updated == [db.explorers[id] EXCEPT !.status = status]
         IN [db |-> [db EXCEPT !.explorers[id] = updated], ret |-> {updated}]

(* createNotification: the notification's title and message text are left
   out of the record *)
createNotification(db, notificationData) ==
  LET notification == [id |-> randomUUID(db), userId |-> notificationData.userId,
                       type |-> notificationData.type,
                       data |-> notificationData.data, isRead |-> FALSE]
  IN [db |-> [TakeUuid(db) EXCEPT !.notifications =
                MapSet(@, notification.id, notification)],
      ret |-> {notification}]

-----------------------------------------------------------------------------
(* The content routes.  A request is its route, the authenticated user
   (claims.sub), req.params.id and the body; a handler's locals are the value
   the pending storage call returns (r, ok) and what it keeps across awaits. *)

NoAnswer == [status |-> 0, message |-> "", errors |-> FALSE, ret |-> {}, list |-> <<>>]

NoRequest == [op |-> "none", pc |-> "done", userId |-> 0, id |-> 0, title |-> "",
              r |-> {}, ok |-> FALSE, like |-> {}, explorer |-> {}, resp |-> NoAnswer]

ContentRequest(op, userId, id, title) ==
  [NoRequest EXCEPT !.op = op, !.pc = "start", !.userId = userId, !.id = id,
                    !.title = title]

NoReply == [op |-> "none", userId |-> 0, id |-> 0, status |-> 0, message |-> "",
            ret |-> {}, list |-> <<>>]

Await(db, c, pc) == [db |-> db, c |-> [c EXCEPT !.pc = pc]]

Answer(db, c, status, message) ==
  [db |-> db,
   c |-> [c EXCEPT !.pc = "done",
                   !.resp = [NoAnswer EXCEPT !.status = status, !.message = message]]]

AnswerJson(db, c, status, ret) ==
  [db |-> db,
   c |-> [c EXCEPT !.pc = "done",
                   !.resp = [NoAnswer EXCEPT !.status = status, !.ret = ret]]]

(* insertPostSchema: title is required; insertStorySchema: mediaUrl is
   required (the request's title field carries either) *)
insertPostSchema(body) == body.title # ""

insertStorySchema(body) == body.mediaUrl # ""

(* POST /api/posts *)
CreatePostStep(db, c) ==
  CASE c.pc = "start" ->
         IF ~insertPostSchema([title |-> c.title, userId |-> c.userId])
           THEN [db |-> db,
                 c |-> [c EXCEPT !.pc = "done",
                                 !.resp = [NoAnswer EXCEPT !.status = 400,
                                                           !.message = "Invalid post data",
                                                           !.errors = TRUE]]]
           ELSE LET created == createPost(db, [title |-> c.title, userId |-> c.userId])
                IN Await(created.db, [c EXCEPT !.r = created.ret], "post")
    [] c.pc = "post" -> AnswerJson(db, c, 201, c.r)

(* DELETE /api/posts/:id *)
NotOwnerNever(post, userId) == FALSE

NotOwner(post, userId) == post.userId # userId

DeletePostStep(db, c) ==
  CASE c.pc = "start" -> Await(db, [c EXCEPT !.r = getPost(db, c.id)], "post")
    [] c.pc = "post" ->
         IF c.r = {}
           THEN Answer(db, c, 404, "Post not found")
         ELSE IF NotOwner(CHOOSE post \in c.r : TRUE, c.userId)
           THEN Answer(db, c, 403, "Not authorized to delete this post")
         ELSE LET deleted == deletePost(db, c.id)
              IN Await(deleted.db, [c EXCEPT !.ok = deleted.ret], "deleted")
    [] c.pc = "deleted" ->
         IF ~c.ok
           THEN Answer(db, c, 404, "Post not found")
           ELSE Answer(db, c, 200, "Post deleted successfully")

(* GET /api/stories *)
GetStoriesStep(db, c) ==
  CASE c.pc = "start" ->
         Await(db, [c EXCEPT !.resp.list = getActiveStories(db)], "stories")
    [] c.pc = "stories" ->
         [db |-> db, c |-> [c EXCEPT !.pc = "done", !.resp.status = 200]]

(* POST /api/stories: expiresAt is set 24 hours ahead, whatever the body says *)
CreateStoryStep(db, c) ==
  CASE c.pc = "start" ->
         LET storyData == [mediaUrl |-> c.title, userId |-> c.userId,
                           expiresAt |-> db.now + StoryTtl]
         IN IF ~insertStorySchema(storyData)
              THEN [db |-> db,
                    c |-> [c EXCEPT !.pc = "done",
                                    !.resp = [NoAnswer EXCEPT !.status = 400,
                                                              !.message = "Invalid story data",
                                                              !.errors = TRUE]]]
              ELSE LET created == createStory(db, storyData)
                   IN Await(created.db, [c EXCEPT !.r = created.ret], "story")
    [] c.pc = "story" -> AnswerJson(db, c, 201, c.r)

(* POST /api/posts/:id/like *)
LikeStep(db, c) ==
  CASE c.pc = "start" ->
         Await(db, [c EXCEPT !.r = getUserLike(db, c.userId, c.id)], "existingLike")
    [] c.pc = "existingLike" ->
         IF c.r # {}
           THEN Answer(db, c, 400, "Post already liked")
           ELSE LET created == createLike(db, [userId |-> c.userId, postId |-> c.id])
                IN Await(created.db, [c EXCEPT !.like = created.ret], "like")
    [] c.pc = "like" -> Await(db, [c EXCEPT !.r = getPost(db, c.id)], "post")
    [] c.pc = "post" ->
         IF c.r # {} /\ (CHOOSE post \in c.r : TRUE).userId # c.userId
           THEN Await(db, c, "user")
           ELSE AnswerJson(db, c, 201, c.like)
    [] c.pc = "user" ->
         LET post == CHOOSE post \in c.r : TRUE
             like == CHOOSE like \in c.like : TRUE
             created == createNotification(db,
                          [userId |-> post.userId, type |-> "like",
                           data |-> <<c.id, like.id>>])
         IN Await(created.db, c, "notification")
    [] c.pc = "notification" -> AnswerJson(db, c, 201, c.like)

(* DELETE /api/posts/:id/like *)
UnlikeStep(db, c) ==
  CASE c.pc = "start" ->
         LET removed == removeLike(db, c.userId, c.id)
         IN Await(removed.db, [c EXCEPT !.ok = removed.ret], "removed")
    [] c.pc = "removed" ->
         IF ~c.ok
           THEN Answer(db, c, 404, "Like not found")
           ELSE Answer(db, c, 200, "Like removed successfully")

(* POST /api/explorers/:id/follow *)
FollowStep(db, c) ==
  CASE c.pc = "start" ->
         IF c.userId = c.id
           THEN Answer(db, c, 400, "Cannot follow yourself")
           ELSE Await(db, [c EXCEPT !.r = getExplorerConnection(db, c.userId, c.id)],
                      "existing")
    [] c.pc = "existing" ->
         IF c.r # {}
           THEN Answer(db, c, 400, "Connection already exists")
           ELSE LET created == createExplorerConnection(db,
                                 [followerId |-> c.userId, followingId |-> c.id,
                                  status |-> "pending"])
                IN Await(created.db, [c EXCEPT !.explorer = created.ret], "explorer")
    [] c.pc = "explorer" -> Await(db, c, "user")
    [] c.pc = "user" ->
         LET explorer == CHOOSE explorer \in c.explorer : TRUE
             created == createNotification(db,
                          [userId |-> c.id, type |-> "explorer_request",
                           data |-> <<explorer.id, c.userId>>])
         IN Await(created.db, c, "notification")
    [] c.pc = "notification" -> AnswerJson(db, c, 201, c.explorer)

(* POST /api/explorers/:id/accept and /api/explorers/:id/reject *)
UpdateExplorerStep(db, c, status) ==
  CASE c.pc = "start" ->
         LET updated == updateExplorerStatus(db, c.id, status)
         IN Await(updated.db, [c EXCEPT !.r = updated.ret], "explorer")
    [] c.pc = "explorer" ->
         IF c.r = {}
           THEN Answer(db, c, 404, "Explorer request not found")
           ELSE AnswerJson(db, c, 200, c.r)

ContentStep(db, c) ==
  CASE c.op = "create-post" -> CreatePostStep(db, c)
    [] c.op = "delete-post" -> DeletePostStep(db, c)
    [] c.op = "get-stories" -> GetStoriesStep(db, c)
    [] c.op = "create-story" -> CreateStoryStep(db, c)
    [] c.op = "like" -> LikeStep(db, c)
    [] c.op = "unlike" -> UnlikeStep(db, c)
    [] c.op = "follow" -> FollowStep(db, c)
    [] c.op = "accept" -> UpdateExplorerStep(db, c, "accepted")
    [] c.op = "reject" -> UpdateExplorerStep(db, c, "blocked")

(* A request handled from its start to its response *)
RECURSIVE Serve(_, _)
Serve(db, c) ==
  IF c.pc = "done" THEN [db |-> db, c |-> c]
  ELSE LET n == ContentStep(db, c) IN Serve(n.db, n.c)

-----------------------------------------------------------------------------
(* State machine *)

ClockJumps == {1, SessionTtl, TokenTtl}

NoLimit == [email |-> <<>>, allowed |-> TRUE, locked |-> FALSE, retryAfter |-> <<>>]

(* No checkEmailSignupRateLimit call yet.  count and age are the stored
   attempt count and the age of the last attempt that the call found (count 0:
   no entry). *)
NoSignupLimit == [email |-> <<>>, allowed |-> TRUE, retryAfter |-> <<>>,
                  count |-> 0, age |-> 0]

(* No recordVerificationAttempt(email, true) yet *)
NoSuccess == [n |-> 0 - 1, before |-> 0]

NoCall == [op |-> "none", key |-> 0, known |-> FALSE, email |-> <<>>,
           status |-> 0, message |-> ""]

Init ==
  /\ users = <<>>
  /\ pendingUsers = EmptyMap
  /\ verificationTokens = EmptyMap
  /\ verificationSessions = EmptyMap
  /\ emailSignupAttempts = EmptyMap
  /\ verifyAttempts = EmptyMap
  /\ now = 0
  /\ uuid = 0
  /\ ticks = 0
  /\ procs = [p \in Procs |-> Idle]
  /\ last = NoCall
  /\ succeeded = {}
  /\ consumed = {}
  /\ passed = {}
  /\ failRun = [e \in Emails |-> [n |-> 0, at |-> 0]]
  /\ limit = NoLimit
  /\ signupLimit = NoSignupLimit
  /\ signupRun = [e \in Emails |-> [n |-> 0, at |-> 0, spaced |-> TRUE]]
  /\ sinceSuccess = [e \in Emails |-> NoSuccess]
  /\ posts = EmptyMap
  /\ likes = EmptyMap
  /\ explorers = EmptyMap
  /\ notifications = EmptyMap
  /\ stories = EmptyMap
  /\ calls = [p \in Procs |-> NoRequest]
  /\ reply = NoReply

(* The store after a step, and the record of a finished request *)
Commit(st) ==
  /\ st.uuid <= MaxUuid
  /\ users' = st.users
  /\ pendingUsers' = st.pendingUsers
  /\ verificationTokens' = st.verificationTokens
  /\ verificationSessions' = st.verificationSessions
  /\ uuid' = st.uuid
  /\ now' = st.now

Finished(l) ==
  /\ last' = [op |-> l.op,
               key |-> l.body.token + l.body.verificationSession,
               known |-> l.known,
               email |-> l.email,
               status |-> l.resp.status,
               message |-> l.resp.message]
  /\ succeeded' = IF l.op = "complete-account" /\ l.resp.status = 200
                    THEN succeeded \cup {l.body.verificationSession}
                    ELSE succeeded
  /\ consumed' = IF l.op = "verify-email" /\ l.resp.status = 200
                   THEN consumed \cup {l.body.token}
                   ELSE consumed
  /\ passed' = IF l.resp.status = 200 /\ l.email # <<>>
                 THEN passed \cup {<<l.op, l.email>>}
                 ELSE passed

(* Whether the request names a verification token or session that is stored
   when the request arrives *)
Arrived(request) ==
  [request EXCEPT !.known =
     \/ request.body.token \in DOMAIN verificationTokens
     \/ request.body.verificationSession \in DOMAIN verificationSessions]

(* A request handled from start to response with no other request in flight *)
Call(request) ==
  LET h == Handle(Store, Arrived(request))
  IN /\ \A p \in Procs : procs[p].pc = "done"
     /\ Commit(h.st)
     /\ Finished(h.l)
     /\ UNCHANGED <<social, emailSignupAttempts, verifyAttempts, ticks, procs, failRun, limit,
                    signupLimit, signupRun, sinceSuccess>>

SignupEmailRequests(emails) ==
  {Request("signup-email", [NoBody EXCEPT !.email = e], ok) :
     e \in emails, ok \in BOOLEAN}

VerifyEmailRequests(tokens) ==
  {Request("verify-email", [NoBody EXCEPT !.email = e, !.token = t], TRUE) :
     e \in {EmailA, <<>>}, t \in tokens}

CompleteProfileRequests(sessions) ==
  {Request("complete-profile",
           [NoBody EXCEPT !.firstName = f, !.lastName = n, !.verificationSession = s],
           TRUE) :
     f \in FirstNames \cup {""}, n \in LastNames, s \in sessions}

CompleteAccountRequests(sessions) ==
  {Request("complete-account",
           [NoBody EXCEPT !.username = u, !.verificationSession = s], TRUE) :
     u \in RawUsernames, s \in sessions}

SignupEmail == \E request \in SignupEmailRequests(RawEmails) : Call(request)

VerifyEmail == \E request \in VerifyEmailRequests(Uuids) : Call(request)

CompleteProfile == \E request \in CompleteProfileRequests(Uuids) : Call(request)

CompleteAccount == \E request \in CompleteAccountRequests(Uuids) : Call(request)

(* Requests handled one at a time, all at one instant of the clock *)
Next ==
  \/ SignupEmail
  \/ VerifyEmail
  \/ CompleteProfile
  \/ CompleteAccount

Spec == Init /\ [][Next]_vars

-----------------------------------------------------------------------------
(* Requests handled one at a time for one email address, with the wall clock
   advancing between them *)

OneRawEmails == {EmailA, <<"A">>, <<>>}

SignupEmailOne == \E request \in SignupEmailRequests(OneRawEmails) : Call(request)

Tick ==
  /\ ticks < MaxTicks
  /\ \A p \in Procs : procs[p].pc = "done"
  /\ \E d \in ClockJumps : now' = now + d
  /\ ticks' = ticks + 1
  /\ UNCHANGED <<social, users, pendingUsers, verificationTokens, verificationSessions,
                 emailSignupAttempts, verifyAttempts, uuid, procs, last,
                 succeeded, consumed, passed, failRun, limit, signupLimit, signupRun,
                 sinceSuccess>>

NextClock ==
  \/ SignupEmailOne
  \/ VerifyEmail
  \/ CompleteProfile
  \/ CompleteAccount
  \/ Tick

SpecClock == Init /\ [][NextClock]_vars

-----------------------------------------------------------------------------
(* Requests in flight together: a handler gives way to the other requests at
   each await.  The handler runs up to its first await when the request
   arrives. *)

Advance(p, l) ==
  LET n == HandlerStep(Store, l)
  IN /\ Commit(n.st)
     /\ IF n.l.pc = "done"
          THEN /\ procs' = [procs EXCEPT ![p] = Idle]
               /\ Finished(n.l)
          ELSE /\ procs' = [procs EXCEPT ![p] = n.l]
               /\ UNCHANGED <<last, succeeded, consumed, passed>>
     /\ UNCHANGED <<social, emailSignupAttempts, verifyAttempts, ticks, failRun, limit,
                    signupLimit, signupRun, sinceSuccess>>

Arrive(p, request) ==
  /\ procs[p].pc = "done"
  /\ Advance(p, Arrived(request))

ArriveSignupEmail ==
  \E p \in Procs : \E request \in SignupEmailRequests(Emails) : Arrive(p, request)

VerifyEmailIssued ==
  \E request \in VerifyEmailRequests(DOMAIN verificationTokens) :
    /\ request.body.email = EmailA
    /\ Call(request)

CompleteProfileIssued ==
  \E request \in CompleteProfileRequests(DOMAIN verificationSessions) :
    /\ request.body.firstName # ""
    /\ Call(request)

ArriveCompleteAccount ==
  \E p \in Procs :
    \E request \in CompleteAccountRequests(DOMAIN verificationSessions) :
      /\ request.body.username = <<"j">>
      /\ Arrive(p, request)

Resume ==
  \E p \in Procs :
    /\ procs[p].pc # "done"
    /\ Advance(p, procs[p])

SignupEmailIssued ==
  \E request \in SignupEmailRequests(Emails) : Call(request)

(* complete-account requests in flight together, after signups, verifications
   and profile completions handled one at a time *)
NextConc ==
  \/ SignupEmailIssued
  \/ VerifyEmailIssued
  \/ CompleteProfileIssued
  \/ ArriveCompleteAccount
  \/ Resume

SpecConc == Init /\ [][NextConc]_vars

(* signup-email requests in flight together *)
NextConcSignup ==
  \/ ArriveSignupEmail
  \/ Resume

SpecConcSignup == Init /\ [][NextConcSignup]_vars

-----------------------------------------------------------------------------
(* The rate limiter of verification attempts, called directly *)

RlJumps == {1, LockTime - 1}

RlEmails == {EmailA}

(* failRun[email].n counts the recordVerificationAttempt(email, false) calls
   made since the last success and since the last check that came 15 minutes
   or more after the failure before it; failRun[email].at is the time of the
   latest of them. *)
CheckVerificationRateLimit ==
  \E email \in RlEmails :
    LET c == checkVerificationRateLimit(verifyAttempts, email, now)
    IN /\ verifyAttempts' = c.map
       /\ limit' = [email |-> email, allowed |-> c.ret.allowed,
                    locked |-> c.ret.locked, retryAfter |-> c.ret.retryAfter]
       /\ failRun' = IF now - failRun[email].at >= VerifyWindow
                       THEN [failRun EXCEPT ![email] = [n |-> 0, at |-> 0]]
                       ELSE failRun
       /\ UNCHANGED <<social, users, pendingUsers, verificationTokens, verificationSessions,
                      emailSignupAttempts, now, uuid, ticks, procs, last,
                      succeeded, consumed, passed, signupLimit, signupRun, sinceSuccess>>

RecordVerificationAttempt ==
  \E email \in RlEmails, success \in BOOLEAN :
    /\ failRun[email].n < MaxFailures
    /\ verifyAttempts' = recordVerificationAttempt(verifyAttempts, email, success, now)
    /\ failRun' = IF success
                    THEN [failRun EXCEPT ![email] = [n |-> 0, at |-> 0]]
                    ELSE [failRun EXCEPT ![email] = [n |-> @.n + 1, at |-> now]]
    /\ sinceSuccess' =
         IF success
           THEN [sinceSuccess EXCEPT ![email] = [n |-> 0, before |-> failRun[email].n]]
           ELSE IF sinceSuccess[email] = NoSuccess
             THEN sinceSuccess
             ELSE [sinceSuccess EXCEPT ![email].n = @ + 1]
    /\ UNCHANGED <<social, users, pendingUsers, verificationTokens, verificationSessions,
                   emailSignupAttempts, now, uuid, ticks, procs, last,
                   succeeded, consumed, passed, limit, signupLimit, signupRun>>

TickRl ==
  /\ ticks < MaxRlTicks
  /\ \E d \in RlJumps : now' = now + d
  /\ ticks' = ticks + 1
  /\ UNCHANGED <<social, users, pendingUsers, verificationTokens, verificationSessions,
                 emailSignupAttempts, verifyAttempts, uuid, procs, last,
                 succeeded, consumed, passed, failRun, limit, signupLimit, signupRun,
                 sinceSuccess>>

NextRl ==
  \/ CheckVerificationRateLimit
  \/ RecordVerificationAttempt
  \/ TickRl

SpecRl == Init /\ [][NextRl]_vars

-----------------------------------------------------------------------------
(* Verification attempts made through the route.  The route calls neither
   checkVerificationRateLimit nor recordVerificationAttempt, so verifyAttempts
   stays as it is; failRun[email] counts the verify-email requests for the
   email that were answered with a failure since the last one that succeeded,
   and holds the time of the latest. *)

VerifyEmailAttempt ==
  \E request \in VerifyEmailRequests(Uuids) :
    LET email == request.body.email
        h == Handle(Store, Arrived(request))
    IN /\ email \in RlEmails
       /\ failRun[email].n < MaxFailures
       /\ \A p \in Procs : procs[p].pc = "done"
       /\ Commit(h.st)
       /\ Finished(h.l)
       /\ failRun' = IF h.l.resp.status = 200
                       THEN [failRun EXCEPT ![email] = [n |-> 0, at |-> 0]]
                       ELSE [failRun EXCEPT ![email] = [n |-> @.n + 1, at |-> now]]
       /\ UNCHANGED <<social, emailSignupAttempts, verifyAttempts, ticks, procs, limit,
                      signupLimit, signupRun, sinceSuccess>>

NextVerify ==
  \/ SignupEmailOne
  \/ VerifyEmailAttempt
  \/ TickRl

SpecVerify == Init /\ [][NextVerify]_vars

-----------------------------------------------------------------------------
(* The rate limiter of signup attempts, called directly *)

SignupJumps == {1, CooldownSeconds * 1000 - 1, SignupWindow - CooldownSeconds * 1000}

CheckEmailSignupRateLimit ==
  \E email \in RlEmails :
    LET c == checkEmailSignupRateLimit(emailSignupAttempts, email, now)
        stored == email \in DOMAIN emailSignupAttempts
    IN /\ emailSignupAttempts' = c.map
       /\ signupLimit' =
            [email |-> email, allowed |-> c.ret.allowed, retryAfter |-> c.ret.retryAfter,
             count |-> IF stored THEN emailSignupAttempts[email].count ELSE 0,
             age |-> IF stored THEN now - emailSignupAttempts[email].lastAttempt ELSE 0]
       /\ UNCHANGED <<social, users, pendingUsers, verificationTokens, verificationSessions,
                      verifyAttempts, now, uuid, ticks, procs, last, succeeded,
                      consumed, passed, failRun, limit, signupRun, sinceSuccess>>

RecordEmailSignupAttempt ==
  \E email \in RlEmails :
    /\ email \in DOMAIN emailSignupAttempts =>
         emailSignupAttempts[email].count < MaxRecorded
    /\ emailSignupAttempts' = recordEmailSignupAttempt(emailSignupAttempts, email, now)
    /\ UNCHANGED <<social, users, pendingUsers, verificationTokens, verificationSessions,
                   verifyAttempts, now, uuid, ticks, procs, last, succeeded,
                   consumed, passed, failRun, limit, signupLimit, signupRun, sinceSuccess>>

TickSignup ==
  /\ ticks < MaxSignupTicks
  /\ \E d \in SignupJumps : now' = now + d
  /\ ticks' = ticks + 1
  /\ UNCHANGED <<social, users, pendingUsers, verificationTokens, verificationSessions,
                 emailSignupAttempts, verifyAttempts, uuid, procs, last,
                 succeeded, consumed, passed, failRun, limit, signupLimit, signupRun,
                 sinceSuccess>>

NextSignupRl ==
  \/ CheckEmailSignupRateLimit
  \/ RecordEmailSignupAttempt
  \/ TickSignup

SpecSignupRl == Init /\ [][NextSignupRl]_vars

-----------------------------------------------------------------------------
(* Signup attempts that follow the limiter's protocol: each attempt is
   checked, and recorded only if the check allows it.  signupRun[email].n
   counts the attempts, .at is the time of the latest, and .spaced tells
   whether every attempt came at least 60 seconds and less than one hour
   after the attempt before it. *)

FlowJumps == {CooldownSeconds * 1000 - 1, CooldownSeconds * 1000,
              SignupWindow - CooldownSeconds * 1000}

SignupAttempt ==
  \E email \in RlEmails :
    LET c == checkEmailSignupRateLimit(emailSignupAttempts, email, now)
        stored == email \in DOMAIN emailSignupAttempts
        run == signupRun[email]
        gap == now - run.at
    IN /\ run.n < MaxAttempts
       /\ emailSignupAttempts' = IF c.ret.allowed
                                   THEN recordEmailSignupAttempt(c.map, email, now)
                                   ELSE c.map
       /\ signupLimit' =
            [email |-> email, allowed |-> c.ret.allowed, retryAfter |-> c.ret.retryAfter,
             count |-> IF stored THEN emailSignupAttempts[email].count ELSE 0,
             age |-> IF stored THEN now - emailSignupAttempts[email].lastAttempt ELSE 0]
       /\ signupRun' = [signupRun EXCEPT ![email] =
            [n |-> run.n + 1,
             at |-> now,
             spaced |-> /\ run.spaced
                        /\ run.n > 0 => /\ gap >= CooldownSeconds * 1000
                                         /\ gap < SignupWindow]]
       /\ UNCHANGED <<social, users, pendingUsers, verificationTokens, verificationSessions,
                      verifyAttempts, now, uuid, ticks, procs, last, succeeded,
                      consumed, passed, failRun, limit, sinceSuccess>>

TickFlow ==
  /\ ticks < MaxFlowTicks
  /\ \E d \in FlowJumps : now' = now + d
  /\ ticks' = ticks + 1
  /\ UNCHANGED <<social, users, pendingUsers, verificationTokens, verificationSessions,
                 emailSignupAttempts, verifyAttempts, uuid, procs, last,
                 succeeded, consumed, passed, failRun, limit, signupLimit, signupRun,
                 sinceSuccess>>

NextSignupFlow ==
  \/ SignupAttempt
  \/ TickFlow

SpecSignupFlow == Init /\ [][NextSignupFlow]_vars

-----------------------------------------------------------------------------
(* The content routes as a state machine *)

UserIds == {101, 102}
Titles == {"t", ""}

(* The ids a request names: the ids of the stored records, and 0 for an id
   that was never handed out *)
PostIds == DOMAIN posts \cup {0}
ExplorerIds == DOMAIN explorers \cup {0}

ContentCommit(db) ==
  /\ db.uuid <= MaxIds
  /\ posts' = db.posts
  /\ likes' = db.likes
  /\ explorers' = db.explorers
  /\ notifications' = db.notifications
  /\ stories' = db.stories
  /\ uuid' = db.uuid
  /\ now' = db.now

ContentFinished(c) ==
  reply' = [op |-> c.op, userId |-> c.userId, id |-> c.id,
            status |-> c.resp.status, message |-> c.resp.message,
            ret |-> c.resp.ret, list |-> c.resp.list]

(* A request handled from start to response with no other request in flight *)
Do(request) ==
  LET h == Serve(Db, request)
  IN /\ \A p \in Procs : calls[p].pc = "done"
     /\ ContentCommit(h.db)
     /\ ContentFinished(h.c)
     /\ UNCHANGED <<signup, ticks, calls>>

(* One step of a handler, from one await to the next *)
Proceed(p, c) ==
  LET n == ContentStep(Db, c)
  IN /\ ContentCommit(n.db)
     /\ IF n.c.pc = "done"
          THEN /\ calls' = [calls EXCEPT ![p] = NoRequest]
               /\ ContentFinished(n.c)
          ELSE /\ calls' = [calls EXCEPT ![p] = n.c]
               /\ UNCHANGED reply
     /\ UNCHANGED <<signup, ticks>>

Begin(p, request) ==
  /\ calls[p].pc = "done"
  /\ Proceed(p, request)

Continue ==
  \E p \in Procs :
    /\ calls[p].pc # "done"
    /\ Proceed(p, calls[p])

CreatePost ==
  \E u \in UserIds, t \in Titles : Do(ContentRequest("create-post", u, 0, t))

DeletePost ==
  \E u \in UserIds, id \in PostIds : Do(ContentRequest("delete-post", u, id, ""))

Like ==
  \E u \in UserIds, id \in PostIds : Do(ContentRequest("like", u, id, ""))

Unlike ==
  \E u \in UserIds, id \in PostIds : Do(ContentRequest("unlike", u, id, ""))

(* Posts and likes, requests handled one at a time *)
NextPosts ==
  \/ CreatePost
  \/ DeletePost
  \/ Like
  \/ Unlike

SpecPosts == Init /\ [][NextPosts]_vars

CreatePostIssued == Do(ContentRequest("create-post", 101, 0, "t"))

BeginLike ==
  \E p \in Procs, u \in UserIds, id \in DOMAIN posts :
    Begin(p, ContentRequest("like", u, id, ""))

UnlikeIssued ==
  \E u \in UserIds, id \in DOMAIN posts : Do(ContentRequest("unlike", u, id, ""))

(* like requests in flight together, posts created and likes removed between
   them *)
NextLikesConc ==
  \/ CreatePostIssued
  \/ BeginLike
  \/ UnlikeIssued
  \/ Continue

SpecLikesConc == Init /\ [][NextLikesConc]_vars

Follow ==
  \E u \in UserIds, id \in UserIds : Do(ContentRequest("follow", u, id, ""))

Accept ==
  \E u \in UserIds, id \in ExplorerIds : Do(ContentRequest("accept", u, id, ""))

Reject ==
  \E u \in UserIds, id \in ExplorerIds : Do(ContentRequest("reject", u, id, ""))

(* Follow requests and their answers, requests handled one at a time *)
NextFollow ==
  \/ Follow
  \/ Accept
  \/ Reject

SpecFollow == Init /\ [][NextFollow]_vars

BeginFollow ==
  \E p \in Procs, u \in UserIds, id \in UserIds :
    Begin(p, ContentRequest("follow", u, id, ""))

(* follow requests in flight together *)
NextFollowConc ==
  \/ BeginFollow
  \/ Accept
  \/ Continue

SpecFollowConc == Init /\ [][NextFollowConc]_vars

StoryJumps == {1, StoryTtl - 1}

CreateStory ==
  \E t \in Titles : Do(ContentRequest("create-story", 101, 0, t))

GetStories == Do(ContentRequest("get-stories", 101, 0, ""))

(* The setInterval callback: deleteExpiredStories runs to its end *)
Sweep ==
  /\ \A p \in Procs : calls[p].pc = "done"
  /\ stories' = deleteExpiredStories(Db).stories
  /\ UNCHANGED <<signup, posts, likes, explorers, notifications, calls, reply,
                 now, uuid, ticks>>

(* The setInterval callback when deleteExpiredStories throws: the error is
   caught and logged *)
SweepThrows ==
  /\ \A p \in Procs : calls[p].pc = "done"
  /\ \E n \in 0..Cardinality(DOMAIN stories) :
       stories' = deleteExpiredStoriesThrows(Db, n).stories
  /\ UNCHANGED <<signup, posts, likes, explorers, notifications, calls, reply,
                 now, uuid, ticks>>

TickStories ==
  /\ ticks < MaxStoryTicks
  /\ \E d \in StoryJumps : now' = now + d
  /\ ticks' = ticks + 1
  /\ UNCHANGED <<signup, social, uuid>>

(* Stories, requests handled one at a time, the sweep between them *)
NextStories ==
  \/ CreateStory
  \/ GetStories
  \/ Sweep
  \/ SweepThrows
  \/ TickStories

SpecStories == Init /\ [][NextStories]_vars

-----------------------------------------------------------------------------
(* Properties *)

EmptyStore == [users |-> <<>>, pendingUsers |-> EmptyMap,
               verificationTokens |-> EmptyMap, verificationSessions |-> EmptyMap,
               now |-> 0, uuid |-> 0]

Response(st, request) == Handle(st, request).l.resp

GenericSignupResponse ==
  [NoResp EXCEPT !.status = 200, !.message = GenericSignupMessage]

(* C1: signup-email answers with one and the same response in every path:
   whatever the email, whether or not it belongs to a User or a PendingUser,
   and whatever the outcome of the email dispatch; the response in the
   current store equals the response to the same request in an empty store,
   where no email is registered. *)
C1_SignupSameResponse ==
  /\ \A request \in SignupEmailRequests(RawEmails) :
       /\ Response(Store, request) = GenericSignupResponse
       /\ \A other \in SignupEmailRequests({request.body.email}) :
            Response(Store, request) = Response(EmptyStore, other)
  /\ last.op = "signup-email" =>
       last.status = 200 /\ last.message = GenericSignupMessage

(* signup-email has answered for an email that belongs to a User *)
C1_Witness ==
  /\ last.op = "signup-email"
  /\ \E i \in 1..Len(users) : users[i].email = last.email

(* C2: no two User records have the same email, and no complete-account
   call creates a User for an email that already belongs to a User. *)
C2_OneUserPerEmail ==
  /\ \A i, j \in 1..Len(users) : users[i].email = users[j].email => i = j
  /\ \A request \in CompleteAccountRequests(Uuids) :
       LET after == Handle(Store, request).st.users
       IN \A i \in 1..Len(after) :
            i > Len(users) =>
              \A j \in 1..Len(users) : users[j].email # after[i].email

(* complete-account has created the User of a second email *)
C2_Witness ==
  /\ Len(users) = 2
  /\ last.op = "complete-account"
  /\ last.status = 200

(* C3: once a complete-account call has succeeded with a session token,
   every later complete-account call with that token fails with the
   "Invalid session" response and leaves the User records as they are. *)
C3_SessionSingleUse ==
  \A request \in CompleteAccountRequests(succeeded) :
    completeAccountSchema(request.body) =>
      LET h == Handle(Store, request)
      IN /\ h.l.resp.status = 400
         /\ h.l.resp.message = "Invalid session"
         /\ h.st.users = users

(* a complete-account call with a session token that had succeeded before
   has been answered *)
C3_Witness ==
  /\ last.op = "complete-account"
  /\ last.key \in succeeded
  /\ last.status = 400
  /\ last.message = "Invalid session"
  /\ Len(users) = 1

(* C4: a verification token that verify-email has succeeded with is no
   longer stored, and every later verify-email call with it fails with the
   "Invalid or expired verification token" response and creates no session. *)
C4_TokenSingleUse ==
  \A t \in consumed :
    /\ t \notin DOMAIN verificationTokens
    /\ \A request \in VerifyEmailRequests({t}) :
         verifyEmailSchema(request.body) =>
           LET h == Handle(Store, request)
           IN /\ h.l.resp.status = 400
              /\ h.l.resp.message = "Invalid or expired verification token"
              /\ h.st.verificationSessions = verificationSessions

(* verify-email has been answered for a token it had succeeded with before *)
C4_Witness ==
  /\ last.op = "verify-email"
  /\ last.key \in consumed
  /\ last.status = 400
  /\ last.message = "Invalid or expired verification token"

(* C5: a stored token whose expiresAt is before now is reported as not found
   by getVerificationToken, which removes it; verify-email with it fails,
   marks no PendingUser verified and creates no session. *)
C5_ExpiredTokenNotFound ==
  \A t \in DOMAIN verificationTokens :
    verificationTokens[t].expiresAt < now =>
      /\ getVerificationToken(Store, t).ret = {}
      /\ t \notin DOMAIN getVerificationToken(Store, t).st.verificationTokens
      /\ \A request \in VerifyEmailRequests({t}) :
           LET h == Handle(Store, request)
           IN /\ h.l.resp.status = 400
              /\ h.st.pendingUsers = pendingUsers
              /\ h.st.verificationSessions = verificationSessions
              /\ verifyEmailSchema(request.body) =>
                   t \notin DOMAIN h.st.verificationTokens

(* verify-email has failed for a token that was stored, never consumed and
   past its expiresAt, and the lookup has removed it *)
C5_Witness ==
  /\ last.op = "verify-email"
  /\ last.known
  /\ last.status = 400
  /\ last.key \notin consumed
  /\ last.key \notin DOMAIN verificationTokens
  /\ now > TokenTtl
  /\ \E e \in DOMAIN pendingUsers : ~pendingUsers[e].isVerified

(* C6: no two Users of different emails have the same username, also when
   the steps of two complete-account calls interleave. *)
C6_UniqueUsername ==
  \A i, j \in 1..Len(users) :
    users[i].email # users[j].email => users[i].username # users[j].username

(* C7: from every state in which an email has neither a User nor a
   PendingUser, signup-email, verify-email with the issued token,
   complete-profile and complete-account with the returned session and an
   unused username, each made within the lifetime of the token and of the
   session, all succeed and add exactly one User, whose email is the signup
   email, whose username is the submitted username and whose isVerified is
   true. *)
C7_FreshSignupSucceeds ==
  \A e \in {x \in RawEmails : insertPendingUserSchema([email |-> x])} :
    \A u \in {x \in RawUsernames : completeAccountSchema([username |-> x, verificationSession |-> 1])} :
      \A d1 \in {0, TokenTtl}, d2 \in {0, SessionTtl} :
        LET email == trim(toLowerCase(e))
            username == trim(toLowerCase(u))
            h1 == Handle(Store, Request("signup-email", [NoBody EXCEPT !.email = e], TRUE))
            issued == DOMAIN h1.st.verificationTokens \ DOMAIN verificationTokens
            t == CHOOSE x \in issued : TRUE
            h2 == Handle([h1.st EXCEPT !.now = @ + d1],
                         Request("verify-email", [NoBody EXCEPT !.email = e, !.token = t], TRUE))
            session == h2.l.resp.verificationSession
            h3 == Handle([h2.st EXCEPT !.now = @ + d2],
                         Request("complete-profile",
                                 [NoBody EXCEPT !.firstName = "Jo", !.lastName = "Do",
                                                !.verificationSession = session], TRUE))
            h4 == Handle(h3.st,
                         Request("complete-account",
                                 [NoBody EXCEPT !.username = u,
                                                !.verificationSession = session], TRUE))
            created == h4.st.users
        IN (/\ getUserByEmail(Store, email) = {}
            /\ email \notin DOMAIN pendingUsers
            /\ getUserByUsername(Store, username) = {})
           =>
           (/\ h1.l.resp.status = 200
            /\ Cardinality(issued) = 1
            /\ h2.l.resp.status = 200
            /\ h3.l.resp.status = 200
            /\ h4.l.resp.status = 200
            /\ Len(created) = Len(users) + 1
            /\ SubSeq(created, 1, Len(users)) = users
            /\ created[Len(created)].email = email
            /\ created[Len(created)].username = username
            /\ created[Len(created)].isVerified = TRUE
            /\ Cardinality({i \in 1..Len(created) : created[i].email = email}) = 1)

(* the four calls have been made for an email and its User is stored *)
C7_Witness ==
  /\ last.op = "complete-account"
  /\ last.status = 200
  /\ last.key \in succeeded
  /\ last.email \notin DOMAIN pendingUsers
  /\ \E i \in 1..Len(users) :
       /\ users[i].email = last.email
       /\ users[i].username \in {<<"j">>, <<"k">>}
       /\ users[i].isVerified

(* C8: each email has at most one stored verification token that is not
   expired, also when the steps of signup-email calls interleave. *)
C8_OneTokenPerEmail ==
  \A t1, t2 \in DOMAIN verificationTokens :
    (/\ verificationTokens[t1].email = verificationTokens[t2].email
     /\ ~(verificationTokens[t1].expiresAt < now)
     /\ ~(verificationTokens[t2].expiresAt < now))
    => t1 = t2

SessionRejected(s) ==
  /\ \A request \in CompleteProfileRequests({s}) :
       completeProfileSchema(request.body) =>
         LET h == Handle(Store, request)
         IN /\ h.l.resp.status = 400
            /\ h.l.resp.message = "Invalid or expired verification session"
            /\ h.st.users = users
            /\ h.st.pendingUsers = pendingUsers
  /\ \A request \in CompleteAccountRequests({s}) :
       completeAccountSchema(request.body) =>
         LET h == Handle(Store, request)
         IN /\ h.l.resp.status = 400
            /\ h.l.resp.message = "Invalid session"
            /\ h.st.users = users
            /\ h.st.pendingUsers = pendingUsers

(* C9, as the claim states it: getVerificationSession returns a session
   exactly when one is stored under the token with used = false and
   expiresAt > now, and otherwise complete-profile and complete-account
   reject the session. *)
C9_SessionValidAfterNow ==
  \A s \in Uuids :
    LET found == getVerificationSession(Store, s).ret
    IN /\ found # {} <=>
            /\ s \in DOMAIN verificationSessions
            /\ ~verificationSessions[s].used
            /\ verificationSessions[s].expiresAt > now
       /\ found = {} => SessionRejected(s)

(* C9, amended: getVerificationSession returns the stored session exactly
   when one is stored under the token with used = false and expiresAt >= now
   (a session is still valid at the instant of its expiresAt); a session that
   is used, or whose expiresAt is before now, is reported as not found, and
   complete-profile and complete-account reject it. *)
C9_SessionValidUntilExpiresAt ==
  \A s \in Uuids :
    LET found == getVerificationSession(Store, s).ret
    IN /\ found # {} <=>
            /\ s \in DOMAIN verificationSessions
            /\ ~verificationSessions[s].used
            /\ verificationSessions[s].expiresAt >= now
       /\ found # {} => found = {verificationSessions[s]}
       /\ found = {} => SessionRejected(s)

(* complete-profile has succeeded with a session at the instant of its
   expiresAt *)
C9_Witness ==
  /\ last.op = "complete-profile"
  /\ last.status = 200
  /\ last.key \in DOMAIN verificationSessions
  /\ verificationSessions[last.key].expiresAt = now
  /\ ticks > 0

(* C10: after 5 or more recordVerificationAttempt(email, false) calls in a
   row (no success among them, and no check made 15 minutes or more after
   the failure before it), checkVerificationRateLimit(email) answers
   allowed = false, locked = true and retryAfter > 0 at every time before 15
   minutes have passed since the latest failure, and allowed = true from
   then on. *)
C10_LockedForFifteenMinutes ==
  \A email \in RlEmails :
    failRun[email].n >= 5 =>
      LET ret == checkVerificationRateLimit(verifyAttempts, email, now).ret
      IN IF now < failRun[email].at + 15 * 60 * 1000
           THEN /\ ~ret.allowed
                /\ ret.locked
                /\ ret.retryAfter # <<>>
                /\ ret.retryAfter[1] > 0
           ELSE ret.allowed

(* the check has answered locked in the last millisecond of the 15 minutes
   after the fifth failure *)
C10_Witness ==
  /\ failRun[EmailA].n = 5
  /\ now = failRun[EmailA].at + 15 * 60 * 1000 - 1
  /\ limit.email = EmailA
  /\ ~limit.allowed
  /\ limit.locked
  /\ limit.retryAfter = <<1>>

(* C11: once five verify-email requests for an email have failed in a row,
   a further verify-email request for that email made less than 15 minutes
   after the fifth failure is rejected even when it carries the code that is
   stored for the email: it is not answered with success, creates no session
   and marks no PendingUser verified. *)
C11_LockedAfterFiveFailures ==
  \A e \in RlEmails :
    (failRun[e].n >= MaxVerifyFailures /\ now - failRun[e].at < LockTime) =>
      \A request \in VerifyEmailRequests(DOMAIN verificationTokens) :
        request.body.email = e =>
          LET h == Handle(Store, request)
          IN /\ h.l.resp.status # 200
             /\ h.st.verificationSessions = verificationSessions
             /\ h.st.pendingUsers = pendingUsers

(* C12: when every signup attempt for an email is checked with
   checkEmailSignupRateLimit and recorded with recordEmailSignupAttempt only
   if allowed, and each attempt comes at least 60 seconds and less than one
   hour after the one before, the checks of attempts 1 to 5 answer
   allowed = true and the check of attempt 6 answers allowed = false with
   retryAfter > 0. *)
C12_SixthSignupRejected ==
  \A e \in RlEmails :
    LET run == signupRun[e]
    IN (run.spaced /\ run.n >= 1) =>
         /\ signupLimit.email = e
         /\ run.n <= MaxSignupAttempts => signupLimit.allowed
         /\ run.n = MaxSignupAttempts + 1 =>
              /\ ~signupLimit.allowed
              /\ signupLimit.retryAfter # <<>>
              /\ signupLimit.retryAfter[1] > 0

(* the sixth attempt of such a run has been checked *)
C12_Witness ==
  /\ signupRun[EmailA].spaced
  /\ signupRun[EmailA].n = MaxSignupAttempts + 1
  /\ emailSignupAttempts[EmailA].count = MaxSignupAttempts

(* C13: while the last recorded signup attempt of an email is less than 60
   seconds old, checkEmailSignupRateLimit answers allowed = false, whatever
   the stored count (1 or more) is; when the count is below 5 the retryAfter
   it answers is between 1 and 60 seconds.  Stated both for the check a
   caller would make now and for the check made last. *)
C13_CooldownBetweenAttempts ==
  /\ \A e \in DOMAIN emailSignupAttempts :
       now - emailSignupAttempts[e].lastAttempt < CooldownSeconds * 1000 =>
         LET ret == checkEmailSignupRateLimit(emailSignupAttempts, e, now).ret
         IN /\ ~ret.allowed
            /\ emailSignupAttempts[e].count < MaxSignupAttempts =>
                 /\ ret.retryAfter # <<>>
                 /\ ret.retryAfter[1] \in 1..CooldownSeconds
  /\ (signupLimit.count >= 1 /\ signupLimit.age < CooldownSeconds * 1000) =>
       /\ ~signupLimit.allowed
       /\ signupLimit.count < MaxSignupAttempts =>
            /\ signupLimit.retryAfter # <<>>
            /\ signupLimit.retryAfter[1] \in 1..CooldownSeconds

(* a check was made 59.999 seconds after the recorded attempt, below the
   attempt limit *)
C13_Witness ==
  /\ signupLimit.count \in 1..(MaxSignupAttempts - 1)
  /\ signupLimit.age = CooldownSeconds * 1000 - 1
  /\ signupLimit.retryAfter = <<1>>

(* C16: once one hour or more has passed since the last recorded signup
   attempt of an email, checkEmailSignupRateLimit answers allowed = true
   whatever the stored count is, and the recordEmailSignupAttempt that comes
   next, with or without that check before it, leaves the count at 1. *)
C16_SignupWindowResets ==
  /\ \A e \in DOMAIN emailSignupAttempts :
       now - emailSignupAttempts[e].lastAttempt >= SignupWindow =>
         LET c == checkEmailSignupRateLimit(emailSignupAttempts, e, now)
         IN /\ c.ret.allowed
            /\ \A d \in SignupJumps \cup {0} :
                 /\ recordEmailSignupAttempt(c.map, e, now + d)[e].count = 1
                 /\ recordEmailSignupAttempt(emailSignupAttempts, e, now + d)[e].count = 1
  /\ (signupLimit.count >= 1 /\ signupLimit.age >= SignupWindow) => signupLimit.allowed

(* a check found the attempt limit reached and the last attempt one hour old,
   and an attempt was recorded after it *)
C16_Witness ==
  /\ signupLimit.count >= MaxSignupAttempts
  /\ signupLimit.age >= SignupWindow
  /\ signupLimit.allowed
  /\ EmailA \in DOMAIN emailSignupAttempts
  /\ emailSignupAttempts[EmailA].count = 1

(* C14: from recordVerificationAttempt(email, true) on, until the fifth
   failure recorded after it, checkVerificationRateLimit(email) answers
   allowed = true and locked = false at every time, whatever number of
   failures was recorded before the success. *)
C14_SuccessClearsFailures ==
  \A e \in RlEmails :
    sinceSuccess[e].n \in 0..(MaxVerifyFailures - 1) =>
      LET ret == checkVerificationRateLimit(verifyAttempts, e, now).ret
      IN /\ ret.allowed
         /\ ~ret.locked

(* a success was recorded for an email locked by five failures, and four
   failures were recorded after it *)
C14_Witness ==
  /\ sinceSuccess[EmailA].before >= MaxVerifyFailures
  /\ sinceSuccess[EmailA].n = MaxVerifyFailures - 1
  /\ verifyAttempts[EmailA].count = MaxVerifyFailures - 1

(* C15: a failure recorded 15 minutes or more after the attempt before it
   starts the count anew: it does not lock an email that was not locked,
   because the failures before it no longer count toward the five. *)
C15_OldFailuresDoNotCount ==
  [][\A e \in RlEmails :
       (/\ e \in DOMAIN verifyAttempts
        /\ ~verifyAttempts[e].locked
        /\ now - verifyAttempts[e].lastAttempt >= VerifyWindow
        /\ e \in DOMAIN verifyAttempts')
       => ~verifyAttempts'[e].locked]_vars

(* The session-invalid conditions of complete-profile and complete-account,
   read off the store: the session is missing, expired or used; the session's
   email has no PendingUser, or one that is not verified; the profile is
   already completed (complete-profile) or incomplete (complete-account); the
   email already belongs to a User (complete-account). *)
SessionInvalid(request) ==
  LET session == getVerificationSession(Store, request.body.verificationSession).ret
  IN \/ session = {}
     \/ \E x \in session :
          LET pending == getPendingUserByEmail(Store, x.email)
          IN \/ pending = {}
             \/ \E pu \in pending :
                  LET completed == pu.firstName # "" /\ pu.lastName # ""
                  IN \/ ~pu.isVerified
                     \/ request.op = "complete-profile" /\ completed
                     \/ request.op = "complete-account" /\ ~completed
                     \/ request.op = "complete-account" /\ getUserByEmail(Store, x.email) # {}

SessionRequests ==
  {request \in CompleteProfileRequests(Uuids) : completeProfileSchema(request.body)}
    \cup
  {request \in CompleteAccountRequests(Uuids) : completeAccountSchema(request.body)}

(* C17: in every state, all complete-profile and complete-account requests
   that meet a session-invalid condition get one and the same response. *)
C17_OneInvalidSessionOutcome ==
  Cardinality({Response(Store, request) :
                 request \in {r \in SessionRequests : SessionInvalid(r)}}) <= 1

(* Requests whose body fails the route's schema: an empty email, a code or a
   session token of the wrong form, an empty first name, a username with a
   character outside the allowed set *)
InvalidRequests ==
  {r \in SignupEmailRequests(RawEmails) : ~insertPendingUserSchema(r.body)}
    \cup
  {r \in VerifyEmailRequests(Uuids \cup {0}) : ~verifyEmailSchema(r.body)}
    \cup
  {r \in CompleteProfileRequests(Uuids \cup {0}) : ~completeProfileSchema(r.body)}
    \cup
  {r \in CompleteAccountRequests(Uuids \cup {0}) : ~completeAccountSchema(r.body)}

(* C18, as the claim states it: each of the four operations rejects a
   structurally invalid request with an invalid-input response (status 4xx)
   that carries field-level detail, and leaves every store unchanged. *)
C18_InvalidInputRejectedWithDetail ==
  \A request \in InvalidRequests :
    LET h == Handle(Store, request)
    IN /\ h.l.resp.status \in 400..499
       /\ h.l.resp.errors
       /\ h.st = Store

(* C18, amended: a structurally invalid request leaves every store unchanged
   in all four operations; complete-profile and complete-account reject it
   with status 400 and field-level detail, verify-email rejects it with
   status 400 and a fixed message without detail, and signup-email answers
   it with its generic response. *)
C18_InvalidInputLeavesStores ==
  \A request \in InvalidRequests :
    LET h == Handle(Store, request)
    IN /\ h.st = Store
       /\ request.op \in {"complete-profile", "complete-account"} =>
            h.l.resp = [NoResp EXCEPT !.status = 400,
                                      !.message = "Invalid data provided",
                                      !.errors = TRUE]
       /\ request.op = "verify-email" =>
            h.l.resp = [NoResp EXCEPT !.status = 400,
                                      !.message = "Invalid verification token"]
       /\ request.op = "signup-email" => h.l.resp = GenericSignupResponse

(* complete-account has answered a structurally invalid request while a
   PendingUser and a token were stored *)
C18_Witness ==
  /\ last.op = "complete-account"
  /\ last.message = "Invalid data provided"
  /\ DOMAIN pendingUsers # {}
  /\ DOMAIN verificationTokens # {}

(* C19: a signup-email call for an email that belongs to no User, whether or
   not a PendingUser is stored for it, ends with a PendingUser stored for the
   email and with exactly one verification token stored for it, which is new
   and not expired. *)
C19_SignupIssuesOneFreshToken ==
  \A request \in SignupEmailRequests(RawEmails) :
    LET email == trim(toLowerCase(request.body.email))
        after == Handle(Store, request).st
        tokens == {t \in DOMAIN after.verificationTokens :
                     after.verificationTokens[t].email = email}
    IN (insertPendingUserSchema(request.body) /\ getUserByEmail(Store, email) = {}) =>
         /\ email \in DOMAIN after.pendingUsers
         /\ Cardinality(tokens) = 1
         /\ \A t \in tokens :
              /\ t \notin DOMAIN verificationTokens
              /\ after.verificationTokens[t].expiresAt > after.now

(* The records of a store that belong to other emails than e, and the store
   cut down to what belongs to e *)
OtherUsers(seq, e) ==
  LET other(u) == u.email # e IN SelectSeq(seq, other)

OtherOf(m, e) == [k \in {x \in DOMAIN m : m[x].email # e} |-> m[k]]

OnlyOf(m, e) == [k \in {x \in DOMAIN m : m[x].email = e} |-> m[k]]

OnlyUsers(seq, e) ==
  LET own(u) == u.email = e IN SelectSeq(seq, own)

(* The store with everything of other emails removed *)
Own(st, e) ==
  [st EXCEPT !.users = OnlyUsers(@, e),
             !.pendingUsers = OnlyOf(@, e),
             !.verificationTokens = OnlyOf(@, e),
             !.verificationSessions = OnlyOf(@, e)]

(* The store with everything of other emails removed except the usernames of
   their Users *)
OwnAndUsernames(st, e) ==
  [st EXCEPT !.users = [i \in 1..Len(st.users) |->
                          IF st.users[i].email = e
                            THEN st.users[i]
                            ELSE [id |-> 0, externalId |-> 0, email |-> <<"?">>,
                                  firstName |-> "", lastName |-> "",
                                  username |-> st.users[i].username,
                                  isVerified |-> FALSE]],
             !.pendingUsers = OnlyOf(@, e),
             !.verificationTokens = OnlyOf(@, e),
             !.verificationSessions = OnlyOf(@, e)]

(* complete-profile and complete-account requests that also carry an email *)
SessionRequestsWithEmail ==
  {[request EXCEPT !.body.email = e] : request \in SessionRequests, e \in RawEmails}

(* What a call changes lies with the session's email, and an email in the
   body changes nothing about the call *)
ChangesOnlySessionEmail(request) ==
  LET h == Handle(Store, request)
      plain == Handle(Store, [request EXCEPT !.body.email = <<>>])
      token == request.body.verificationSession
  IN /\ h.st = plain.st
     /\ h.l.resp = plain.l.resp
     /\ token \notin DOMAIN verificationSessions => h.st = Store
     /\ token \in DOMAIN verificationSessions =>
          LET e == verificationSessions[token].email
          IN /\ OtherUsers(h.st.users, e) = OtherUsers(users, e)
             /\ OtherOf(h.st.pendingUsers, e) = OtherOf(pendingUsers, e)
             /\ OtherOf(h.st.verificationTokens, e) = OtherOf(verificationTokens, e)
             /\ OtherOf(h.st.verificationSessions, e) = OtherOf(verificationSessions, e)

(* C20, as the claim states it: a complete-profile or complete-account call
   with a session bound to email e changes only what belongs to e, whatever
   email the body carries, and reads only what belongs to e: its response is
   the one it gets from the store with the records of all other emails
   removed. *)
C20_ReadsAndChangesOnlySessionEmail ==
  \A request \in SessionRequestsWithEmail :
    /\ ChangesOnlySessionEmail(request)
    /\ request.body.verificationSession \in DOMAIN verificationSessions =>
         LET e == verificationSessions[request.body.verificationSession].email
         IN Response(Store, request) = Response(Own(Store, e), request)

(* C20, amended: such a call changes only what belongs to e, whatever email
   the body carries, and of the records of other emails it reads nothing but
   the usernames of their Users: its response is the one it gets from the
   store with everything else of the other emails removed. *)
C20_ChangesOnlySessionEmail ==
  \A request \in SessionRequestsWithEmail :
    /\ ChangesOnlySessionEmail(request)
    /\ request.body.verificationSession \in DOMAIN verificationSessions =>
         LET e == verificationSessions[request.body.verificationSession].email
         IN Response(Store, request) = Response(OwnAndUsernames(Store, e), request)

(* complete-profile has succeeded for one email while a PendingUser of the
   other email was stored *)
C20_Witness ==
  /\ last.op = "complete-profile"
  /\ last.status = 200
  /\ \E e \in DOMAIN pendingUsers : e # last.email

InvalidSessionResponse == [NoResp EXCEPT !.status = 400, !.message = "Invalid session"]

(* C21: every User's email has had a successful verify-email and a
   successful complete-profile, and the complete-profile came after the
   verify-email; complete-account with a valid session whose PendingUser is
   not verified or lacks firstName or lastName answers InvalidSession and
   creates no User. *)
C21_FlowInOrder ==
  /\ \A i \in 1..Len(users) :
       /\ <<"verify-email", users[i].email>> \in passed
       /\ <<"complete-profile", users[i].email>> \in passed
  /\ \A e \in Emails :
       <<"complete-profile", e>> \in passed => <<"verify-email", e>> \in passed
  /\ \A request \in CompleteAccountRequests(DOMAIN verificationSessions) :
       \A x \in getVerificationSession(Store, request.body.verificationSession).ret :
         \A pu \in getPendingUserByEmail(Store, x.email) :
           (/\ completeAccountSchema(request.body)
            /\ ~pu.isVerified \/ pu.firstName = "" \/ pu.lastName = "") =>
             LET h == Handle(Store, request)
             IN /\ h.l.resp = InvalidSessionResponse
                /\ h.st.users = users

(* complete-account was refused for a verified email whose profile is not
   completed, after a User was created for the other email *)
C21_Witness ==
  /\ last.op = "complete-account"
  /\ last.message = "Invalid session"
  /\ last.email \in DOMAIN pendingUsers
  /\ pendingUsers[last.email].isVerified
  /\ pendingUsers[last.email].firstName = ""
  /\ Len(users) = 1

(* C22: once firstName and lastName are stored on the PendingUser, a
   complete-profile call with a valid session of that email answers
   InvalidSession and leaves the PendingUser as it is. *)
C22_ProfileReplayRejected ==
  \A request \in CompleteProfileRequests(DOMAIN verificationSessions) :
    \A x \in getVerificationSession(Store, request.body.verificationSession).ret :
      \A pu \in getPendingUserByEmail(Store, x.email) :
        (/\ completeProfileSchema(request.body)
         /\ pu.firstName # ""
         /\ pu.lastName # "") =>
          LET h == Handle(Store, request)
          IN /\ h.l.resp = InvalidSessionResponse
             /\ h.st.pendingUsers = pendingUsers

(* a second complete-profile was refused for a session whose profile is
   completed *)
C22_Witness ==
  /\ last.op = "complete-profile"
  /\ last.message = "Invalid session"
  /\ last.email \in DOMAIN pendingUsers
  /\ pendingUsers[last.email].firstName # ""
  /\ <<"complete-profile", last.email>> \in passed

(* verify-email requests for the stored tokens, with either email in the body *)
VerifyEmailStored ==
  {[request EXCEPT !.body.email = e] :
     request \in VerifyEmailRequests(DOMAIN verificationTokens), e \in Emails}

(* C23: a verify-email call answered with success has marked the PendingUser
   of the token's email verified, has created exactly one session, which is
   unused, bound to the token's email whatever email the body carries,
   expires 30 minutes from now and is the one returned, and has deleted the
   token; every stored session belongs to an email for which a verify-email
   call has succeeded. *)
C23_VerifyCreatesSession ==
  /\ \A request \in VerifyEmailStored :
       LET h == Handle(Store, request)
           token == request.body.token
           e == verificationTokens[token].email
           new == DOMAIN h.st.verificationSessions \ DOMAIN verificationSessions
       IN h.l.resp.status = 200 =>
            /\ e \in DOMAIN h.st.pendingUsers
            /\ h.st.pendingUsers[e].isVerified
            /\ \A other \in DOMAIN pendingUsers \ {e} :
                 h.st.pendingUsers[other] = pendingUsers[other]
            /\ Cardinality(new) = 1
            /\ \A s \in new :
                 /\ h.st.verificationSessions[s].email = e
                 /\ ~h.st.verificationSessions[s].used
                 /\ h.st.verificationSessions[s].expiresAt = now + SessionTtl
                 /\ h.l.resp.verificationSession = s
            /\ \A s \in DOMAIN verificationSessions :
                 h.st.verificationSessions[s] = verificationSessions[s]
            /\ token \notin DOMAIN h.st.verificationTokens
  /\ \A s \in DOMAIN verificationSessions :
       <<"verify-email", verificationSessions[s].email>> \in passed

(* verify-email has succeeded with the token of one email and the other
   email in the body *)
C23_Witness ==
  /\ last.op = "verify-email"
  /\ last.status = 200
  /\ last.email = EmailB
  /\ \E s \in DOMAIN verificationSessions : verificationSessions[s].email = EmailB

(* C24: a complete-account call answered with success has marked its session
   used and has deleted the PendingUser of the session's email; a call
   answered with a failure has changed no PendingUser and no User and has
   left the session as it was, and after the username-taken failure the
   session is still valid and the same call with a username that is free
   succeeds. *)
C24_FailedAccountKeepsSession ==
  \A request \in CompleteAccountRequests(DOMAIN verificationSessions) :
    LET h == Handle(Store, request)
        token == request.body.verificationSession
        e == verificationSessions[token].email
    IN completeAccountSchema(request.body) =>
         /\ h.l.resp.status = 200 =>
              /\ h.st.verificationSessions[token].used
              /\ e \notin DOMAIN h.st.pendingUsers
         /\ h.l.resp.status # 200 =>
              /\ h.st.pendingUsers = pendingUsers
              /\ h.st.users = users
              /\ token \in DOMAIN h.st.verificationSessions =>
                   h.st.verificationSessions[token] = verificationSessions[token]
         /\ h.l.resp.message = "Username is already taken" =>
              /\ getVerificationSession(h.st, token).ret # {}
              /\ e \in DOMAIN h.st.pendingUsers
              /\ \A again \in CompleteAccountRequests({token}) :
                   (/\ completeAccountSchema(again.body)
                    /\ getUserByUsername(h.st, trim(toLowerCase(again.body.username))) = {})
                   => Handle(h.st, again).l.resp.status = 200

(* complete-account was refused because the username is taken, and the
   session and the PendingUser of its email are still there *)
C24_Witness ==
  /\ last.op = "complete-account"
  /\ last.message = "Username is already taken"
  /\ last.email \in DOMAIN pendingUsers
  /\ last.key \in DOMAIN verificationSessions
  /\ ~verificationSessions[last.key].used

(* C26: every stored verification token belongs to an email that has a
   PendingUser, and verify-email with a stored token that is not expired is
   never answered with the pending-user-not-found outcome. *)
C26_TokensHavePendingUser ==
  /\ \A t \in DOMAIN verificationTokens :
       verificationTokens[t].email \in DOMAIN pendingUsers
  /\ \A request \in VerifyEmailStored :
       verificationTokens[request.body.token].expiresAt >= now =>
         Response(Store, request).message # "Pending user not found"

(* the PendingUser of one email was deleted by complete-account while the
   token of the other email is stored *)
C26_Witness ==
  /\ last.op = "complete-account"
  /\ last.status = 200
  /\ last.email \notin DOMAIN pendingUsers
  /\ DOMAIN verificationTokens # {}

-----------------------------------------------------------------------------
(* Stories, posts, likes and explorer connections *)

LikesOf(postId) == {l \in DOMAIN likes : likes[l].postId = postId}

LikesOfPair(userId, postId) ==
  {l \in DOMAIN likes : likes[l].userId = userId /\ likes[l].postId = postId}

ConnectionsOfPair(followerId, followingId) ==
  {e \in DOMAIN explorers : /\ explorers[e].followerId = followerId
                            /\ explorers[e].followingId = followingId}

NotExpired == {id \in DOMAIN stories : ~(stories[id].expiresAt < now)}

(* C25: in every state between requests, the sweep (deleteExpiredStories)
   removes exactly the stories whose expiresAt is before now and leaves the
   others as they are, so what it keeps is what getActiveStories returns;
   getActiveStories returns exactly the stories that are not expired, with or
   without the sweep; and a sweep that runs, or that fails after any number
   of entries, changes neither what GET /api/stories answers nor any other
   part of the store. *)
C25_SweepDeletesExpired ==
  LET active == getActiveStories(Db)
      swept == deleteExpiredStories(Db)
  IN /\ DOMAIN swept.stories = NotExpired
     /\ \A id \in NotExpired : swept.stories[id] = stories[id]
     /\ swept = [Db EXCEPT !.stories = swept.stories]
     /\ {active[i].id : i \in 1..Len(active)} = NotExpired
     /\ \A i \in 1..Len(active) :
          /\ active[i] = stories[active[i].id]
          /\ active[i].expiresAt >= now
     /\ getActiveStories(swept) = active
     /\ \A n \in 0..Cardinality(DOMAIN stories) :
          LET failed == deleteExpiredStoriesThrows(Db, n)
          IN /\ getActiveStories(failed) = active
             /\ failed = [Db EXCEPT !.stories = failed.stories]
             /\ NotExpired \subseteq DOMAIN failed.stories
             /\ Serve(failed, ContentRequest("get-stories", 101, 0, "")).c.resp
                  = Serve(Db, ContentRequest("get-stories", 101, 0, "")).c.resp

(* a sweep has deleted a story, while a stored story expires at this very
   instant and an expired one is still stored *)
C25_Witness ==
  /\ \E id \in 1..uuid : id \notin DOMAIN stories
  /\ \E id \in DOMAIN stories : stories[id].expiresAt = now
  /\ reply.op = "get-stories"
  /\ reply.list # <<>>

(* C27: every stored post's likeCount is the number of stored likes of the
   post and is not negative; removeLike for a pair with no like returns false
   and changes nothing, and the unlike request for it answers 404. *)
C27_LikeCountMatches ==
  /\ \A id \in DOMAIN posts :
       /\ posts[id].likeCount = Cardinality(LikesOf(id))
       /\ posts[id].likeCount >= 0
  /\ \A u \in UserIds, id \in PostIds :
       LikesOfPair(u, id) = {} =>
         /\ removeLike(Db, u, id) = [db |-> Db, ret |-> FALSE]
         /\ LET h == Serve(Db, ContentRequest("unlike", u, id, ""))
            IN h.db = Db /\ h.c.resp.status = 404

(* an unlike request has removed one of two likes of a post *)
C27_Witness ==
  /\ reply.op = "unlike"
  /\ reply.status = 200
  /\ reply.id \in DOMAIN posts
  /\ posts[reply.id].likeCount = 1
  /\ LikesOfPair(reply.userId, reply.id) = {}

(* C28: at most one like is stored per (user, post) pair, and a like request
   for a pair that has a like answers 400 "Post already liked" and changes
   nothing. *)
C28_OneLikePerPair ==
  /\ \A u \in UserIds, id \in PostIds : Cardinality(LikesOfPair(u, id)) <= 1
  /\ (\A p \in Procs : calls[p].pc = "done") =>
       \A u \in UserIds, id \in PostIds :
         LikesOfPair(u, id) # {} =>
           LET h == Serve(Db, ContentRequest("like", u, id, ""))
           IN /\ h.c.resp.status = 400
              /\ h.c.resp.message = "Post already liked"
              /\ h.db = Db

(* C29: no connection joins a user to itself, each ordered pair has at most
   one connection, and a follow request for a pair that has a connection, in
   whatever status, answers 400 and creates no connection and no
   notification. *)
C29_OneConnectionPerPair ==
  /\ \A e \in DOMAIN explorers : explorers[e].followerId # explorers[e].followingId
  /\ \A u \in UserIds, v \in UserIds : Cardinality(ConnectionsOfPair(u, v)) <= 1
  /\ (\A p \in Procs : calls[p].pc = "done") =>
       \A u \in UserIds, v \in UserIds :
         (u = v \/ ConnectionsOfPair(u, v) # {}) =>
           LET h == Serve(Db, ContentRequest("follow", u, v, ""))
           IN /\ h.c.resp.status = 400
              /\ h.db = Db

(* C30: a delete request for a post that is not stored answers 404, one by a
   user who is not the post's owner answers 403 and leaves the store as it
   is, and one by the owner removes that post and nothing else. *)
C30_OnlyOwnerDeletes ==
  \A u \in UserIds, id \in PostIds :
    LET h == Serve(Db, ContentRequest("delete-post", u, id, ""))
    IN /\ id \notin DOMAIN posts =>
            /\ h.c.resp.status = 404
            /\ h.c.resp.message = "Post not found"
            /\ h.db = Db
       /\ (id \in DOMAIN posts /\ posts[id].userId # u) =>
            /\ h.c.resp.status = 403
            /\ h.c.resp.message = "Not authorized to delete this post"
            /\ h.db = Db
       /\ (id \in DOMAIN posts /\ posts[id].userId = u) =>
            /\ h.c.resp.status = 200
            /\ h.db = [Db EXCEPT !.posts = MapDelete(posts, id)]

(* a delete request by a user who is not the owner was refused, the post is
   still stored, and another post has been deleted *)
C30_Witness ==
  /\ reply.op = "delete-post"
  /\ reply.status = 403
  /\ reply.id \in DOMAIN posts
  /\ posts[reply.id].userId # reply.userId
  /\ \E id \in 1..uuid : id \notin DOMAIN posts \cup DOMAIN likes \cup DOMAIN notifications

====
